---- MODULE Spec2Model ----
(***************************************************************************)
(* Introspect backend API: the authentication routes, the password-reset   *)
(* flow, the session-token service with its middleware, and the diagnostic *)
(* review route, as state machines over the relational store.              *)
(*                                                                         *)
(* Time is counted in hours.  A nullable column is <<>> (NULL) or <<v>>.   *)
(* Every action records the step it took in `last` (the request and the    *)
(* response the caller observes), so that a response and the store change  *)
(* that came with it can be related.  The `timestamp` field of a response  *)
(* body is the clock and is left out of the response records.              *)
(***************************************************************************)
EXTENDS Integers, Sequences, FiniteSets, TLC

VARIABLES
    now,          \* the clock, new Date(), in hours
    nodeEnv,      \* process.env.NODE_ENV
    env,          \* process.env: the credentials of the SMS and email providers
    users,        \* table users
    userSeq,      \* number of user rows ever inserted (ids are never reused)
    rg,           \* the POST /api/auth/register requests in flight
    resetTokens,  \* table password_reset_tokens
    rp,           \* the POST /api/auth/reset-password requests in flight
    successes,    \* per token string, the resets that returned success (history)
    held,         \* the session tokens the clients hold (the server keeps none)
    patients,     \* table patients
    diagnostics,  \* table diagnostics
    rv,           \* the PUT /api/diagnostics/:id/review requests in flight
    notifications,\* table notifications
    sn,           \* the POST /api/notifications/send request in flight
    su,           \* the PUT /api/notifications/:id/status requests in flight
    failedApplied,\* per notification id, the updates to failed applied (history)
    last          \* the step just taken and the response the caller observes

vars == <<now, nodeEnv, env, users, userSeq, rg, resetTokens, rp, successes, held,
          patients, diagnostics, rv, notifications, sn, su, failedApplied, last>>

identityVars == <<users, userSeq, rg>>
resetVars == <<resetTokens, rp, successes>>
diagVars == <<patients, diagnostics, rv>>
statusVars == <<su, failedApplied>>
notifVars == <<notifications, sn, statusVars>>
envVars == <<now, nodeEnv, env>>

-----------------------------------------------------------------------------
(* Bounds of the model *)

MaxUsers == 2
MaxResetTokens == 1
MaxTokenStrings == 2
MaxReq == 2
MaxHours == 2
MaxHalfDays == 3
MaxHeld == 2
MaxDiagnostics == 1
MaxNotifications == 1
MaxRetries == 2

(* Program constants *)

MinPasswordLen == 8
MinFullNameLen == 2
ResetExpiryHours == 1
JwtExpiresInHours == 24

Null == <<>>
Some(v) == <<v>>
IsNull(c) == c = <<>>
Val(c) == c[1]

\* A request body that carries no field beside the expected ones.
NoExtra == [none |-> TRUE]

-----------------------------------------------------------------------------
(* Request inputs *)

ValidEmails == {"a@moh.org", "b@moh.org"}
Emails == ValidEmails \cup {"not-an-email"}

\* A password is its text (k) and its length in characters.
Passwords == {[k |-> 1, len |-> 7], [k |-> 1, len |-> 8], [k |-> 2, len |-> 9]}

Roles == {"health_worker", "admin", "super_admin"}

\* The full name every registration gives, and the ones a profile update gives.
RegisteredName == "Ann A"
FullNames == {"Ann B", "A"}

Req == 1..MaxReq

\* nanoid(32): the token strings that can be drawn.
TokenStrings == 1..MaxTokenStrings

-----------------------------------------------------------------------------
(* Credential verifier *)

\* bcrypt.hash: the digest carries the salt; only the hashed text decides compare.
hashPassword(password, salt) == [pw |-> password, salt |-> salt]

verifyPassword(password, hash) == hash.pw = password

-----------------------------------------------------------------------------
(* Storage *)

getUserByEmail_AnyUser(email) ==
    IF users = {} THEN Null ELSE Some(CHOOSE u \in users : TRUE)

getUserByEmail(email) ==
    LET found == {u \in users : u.email = email}
    IN IF found = {} THEN Null ELSE Some(CHOOSE u \in found : TRUE)

getUser(id) ==
    LET found == {u \in users : u.id = id}
    IN IF found = {} THEN Null ELSE Some(CHOOSE u \in found : TRUE)

\* UPDATE users SET password = ... WHERE id = ...: no row, no change.
updateUserPassword_Everyone(id, hash) ==
    {[u EXCEPT !.password = hash] : u \in users}

updateUserPassword(id, hash) ==
    {IF u.id = id THEN [u EXCEPT !.password = hash] ELSE u : u \in users}

\* UPDATE users SET ...data WHERE id = ...: the columns data names get its values.
updateUser(id, data) ==
    {IF u.id = id
     THEN [k \in DOMAIN u |-> IF k \in DOMAIN data THEN data[k] ELSE u[k]]
     ELSE u : u \in users}

\* DELETE FROM users WHERE id = ...
deleteUser(id) == {u \in users : u.id # id}

updateLastLogin(id) ==
    {IF u.id = id THEN [u EXCEPT !.lastLoginAt = Some(now)] ELSE u : u \in users}

getPasswordResetToken(token) ==
    LET found == {t \in resetTokens : t.token = token}
    IN IF found = {} THEN Null ELSE Some(CHOOSE t \in found : TRUE)

markTokenAsUsed_AllOfOwner(id) ==
    LET owners == {t.userId : t \in {x \in resetTokens : x.id = id}}
    IN {IF t.userId \in owners THEN [t EXCEPT !.usedAt = Some(now)] ELSE t :
           t \in resetTokens}

markTokenAsUsed_Skipped(id) == resetTokens

markTokenAsUsed(id) ==
    {IF t.id = id THEN [t EXCEPT !.usedAt = Some(now)] ELSE t : t \in resetTokens}

createPasswordResetToken(userId, token, expiresAt) ==
    resetTokens \cup {[id |-> Cardinality(resetTokens) + 1, userId |-> userId,
                       token |-> token, expiresAt |-> expiresAt, usedAt |-> Null,
                       createdAt |-> now]}

-----------------------------------------------------------------------------
(* Request validation (zod schemas) *)

IsEmail(e) == e \in ValidEmails

resetPasswordSchema_AnyLength(newPassword) == TRUE

resetPasswordSchema(newPassword) == newPassword.len >= MinPasswordLen

forgotPasswordSchema(email) == IsEmail(email)


registerSchema(email, password, role) ==
    /\ IsEmail(email)
    /\ password.len >= MinPasswordLen
    /\ (IsNull(role) \/ Val(role) \in Roles)

loginSchema(email, password) == IsEmail(email) /\ password.len >= 1

-----------------------------------------------------------------------------
(* Token service *)

JwtSecret == "JWT_SECRET"

\* jwt.sign(payload, JWT_SECRET, {expiresIn: "24h"})
generateToken(user) ==
    [id |-> user.id, email |-> user.email, role |-> user.role,
     iat |-> now, exp |-> now + JwtExpiresInHours, sig |-> JwtSecret]

\* What a client can put after "Bearer ": a token the server issued, the same
\* with its role raised and signed with a guessed key, or text that is no JWT.
NotAJwt == [jwt |-> FALSE]
Forged(token) == [token EXCEPT !.role = "super_admin", !.sig = "guessed-key"]
IsJwt(token) == "sig" \in DOMAIN token

verifyToken_NoExpiry(token) ==
    IF IsJwt(token) /\ token.sig = JwtSecret
    THEN Some([id |-> token.id, email |-> token.email, role |-> token.role,
               iat |-> token.iat, exp |-> token.exp])
    ELSE Null

\* A validation that also asks the users table: the account must exist and be
\* active.
verifyToken_ChecksUser(token) ==
    IF /\ IsJwt(token) /\ token.sig = JwtSecret /\ now < token.exp
       /\ \E u \in users : u.id = token.id /\ u.isActive
    THEN Some([id |-> token.id, email |-> token.email, role |-> token.role,
               iat |-> token.iat, exp |-> token.exp])
    ELSE Null

\* jwt.verify(token, JWT_SECRET): the payload, or an exception (not a JWT, wrong
\* signature, or expired: jsonwebtoken throws from exp on).
jwtVerify(token) ==
    IF IsJwt(token) /\ token.sig = JwtSecret /\ now < token.exp
    THEN [thrown |-> FALSE,
          payload |-> [id |-> token.id, email |-> token.email, role |-> token.role,
                       iat |-> token.iat, exp |-> token.exp]]
    ELSE [thrown |-> TRUE]

\* An exception on its way up the call stack.
Thrown == <<"exception", "thrown">>

\* verifyToken without its try/catch.
verifyToken_NoCatch(token) ==
    LET r == jwtVerify(token)
    IN IF r.thrown THEN Thrown ELSE Some(r.payload)

\* jwt.verify in try/catch: the payload, or null when it throws.
verifyToken(token) ==
    LET r == jwtVerify(token)
    IN IF r.thrown THEN Null ELSE Some(r.payload)

-----------------------------------------------------------------------------
(* Responses *)

Unauthorized == [status |-> 401, code |-> "UNAUTHORIZED",
                 message |-> "Authorization token required"]

InvalidToken == [status |-> 401, code |-> "INVALID_TOKEN",
                 message |-> "Invalid or expired token"]

AuthError == [status |-> 500, code |-> "AUTH_ERROR",
              message |-> "Authentication error"]

AuthenticationRequired == [status |-> 401, code |-> "UNAUTHORIZED",
                           message |-> "Authentication required"]

Forbidden == [status |-> 403, code |-> "FORBIDDEN",
              message |-> "Insufficient permissions"]

ServerError == [status |-> 500, code |-> "SERVER_ERROR",
                message |-> "Failed to delete account"]

UserNotFound == [status |-> 404, code |-> "USER_NOT_FOUND",
                 message |-> "User not found"]

PatientExists == [status |-> 400, code |-> "PATIENT_EXISTS",
                  message |-> "Patient with this code already exists"]

NoImage == [status |-> 400, code |-> "NO_IMAGE",
            message |-> "Blood smear image is required"]

MissingStatus == [status |-> 400, code |-> "MISSING_STATUS",
                  message |-> "Review status is required"]

DiagnosticNotFound_AsForbidden ==
    [status |-> 403, code |-> "FORBIDDEN", message |-> "Insufficient permissions"]

DiagnosticNotFound == [status |-> 404, code |-> "DIAGNOSTIC_NOT_FOUND",
                       message |-> "Diagnostic not found"]

\* No response has gone out in this step.
NoResponse == [status |-> 0, code |-> "NONE"]

\* The handlers' catch: 400 with the message of whatever was thrown.
ValidationError == [status |-> 400, code |-> "VALIDATION_ERROR"]

UserExists == [status |-> 400, code |-> "USER_EXISTS",
               message |-> "User with this email already exists"]

LoginNoUserResponse ==
    [status |-> 401, code |-> "INVALID_CREDENTIALS",
     message |-> "Invalid email or password"]

LoginBadPasswordResponse_Telling ==
    [status |-> 401, code |-> "INVALID_CREDENTIALS", message |-> "Wrong password"]

LoginBadPasswordResponse ==
    [status |-> 401, code |-> "INVALID_CREDENTIALS",
     message |-> "Invalid email or password"]

ForgotNoUserResponse ==
    [status |-> 200, success |-> TRUE,
     data |-> [message |-> "If an account exists with that email, password reset instructions have been sent"]]

ForgotSentResponse(resetToken) ==
    [status |-> 200, success |-> TRUE,
     data |-> IF nodeEnv = "development"
              THEN [message |-> "Password reset instructions sent to your email",
                    resetToken |-> resetToken]
              ELSE [message |-> "Password reset instructions sent to your email"]]

ResetInvalidToken == [status |-> 400, code |-> "INVALID_TOKEN",
                      message |-> "Invalid or expired reset token"]

ResetTokenExpired == [status |-> 400, code |-> "TOKEN_EXPIRED",
                      message |-> "Reset token has expired"]

ResetSuccess == [status |-> 200, success |-> TRUE,
                 data |-> [message |-> "Password successfully reset"]]

-----------------------------------------------------------------------------
(* POST /api/auth/register *)

Register(email, password, role, isActive, salt) ==
    /\ UNCHANGED <<envVars, resetVars, held, diagVars, notifVars>>
    /\ IF ~registerSchema(email, password, role)
       THEN /\ UNCHANGED identityVars
            /\ last' = [op |-> "register", resp |-> ValidationError]
       ELSE IF ~IsNull(getUserByEmail(email))
       THEN /\ UNCHANGED identityVars
            /\ last' = [op |-> "register", resp |-> UserExists]
       ELSE LET user == [id |-> userSeq + 1, email |-> email,
                         password |-> hashPassword(password, salt),
                         fullName |-> RegisteredName,
                         role |-> IF IsNull(role) THEN "health_worker" ELSE Val(role),
                         isActive |-> IF IsNull(isActive) THEN TRUE ELSE Val(isActive),
                         lastLoginAt |-> Null]
            IN /\ userSeq < MaxUsers
               /\ users' = users \cup {user}
               /\ userSeq' = userSeq + 1
               /\ UNCHANGED rg
               /\ last' = [op |-> "register",
                           resp |-> [status |-> 201, success |-> TRUE,
                                     user |-> user.id, token |-> generateToken(user)]]

(* POST /api/auth/login *)

Login(email, password) ==
    /\ UNCHANGED <<envVars, userSeq, rg, resetVars, held, diagVars, notifVars>>
    /\ LET user == getUserByEmail(email)
       IN IF ~loginSchema(email, password)
          THEN /\ UNCHANGED users
               /\ last' = [op |-> "login", path |-> "parse", resp |-> ValidationError]
          ELSE IF IsNull(user)
          THEN /\ UNCHANGED users
               /\ last' = [op |-> "login", path |-> "no-user",
                           resp |-> LoginNoUserResponse]
          ELSE IF ~verifyPassword(password, Val(user).password)
          THEN /\ UNCHANGED users
               /\ last' = [op |-> "login", path |-> "bad-password",
                           resp |-> LoginBadPasswordResponse]
          ELSE /\ users' = updateLastLogin(Val(user).id)
               /\ last' = [op |-> "login", path |-> "ok",
                           resp |-> [status |-> 200, success |-> TRUE,
                                     user |-> Val(user).id,
                                     token |-> generateToken(Val(user))]]

(* POST /api/auth/forgot-password *)

\* expiresAt.setHours(expiresAt.getHours() + 1)
resetExpiresAt == now + ResetExpiryHours

\* nanoid(32): a string no earlier draw gave (the strings are opaque: the first unused one)
nanoid == Cardinality(resetTokens) + 1

ForgotPassword(email, resetToken) ==
    /\ UNCHANGED <<envVars, identityVars, rp, successes, held, diagVars, notifVars>>
    /\ LET user == getUserByEmail(email)
       IN IF ~forgotPasswordSchema(email)
          THEN /\ UNCHANGED resetTokens
               /\ last' = [op |-> "forgot", resp |-> ValidationError]
          ELSE IF IsNull(user)
          THEN /\ UNCHANGED resetTokens
               /\ last' = [op |-> "forgot", resp |-> ForgotNoUserResponse]
          ELSE \* token is UNIQUE: nanoid draws a string no row holds
               /\ IsNull(getPasswordResetToken(resetToken))
               /\ Cardinality(resetTokens) < MaxTokenStrings
               /\ resetTokens' = createPasswordResetToken(Val(user).id, resetToken,
                                                          resetExpiresAt)
               /\ last' = [op |-> "forgot", resp |-> ForgotSentResponse(resetToken)]

\* The reset tokens a flow with few tokens still has room for.
TokensLeft(email) ==
    IsNull(getUserByEmail(email)) \/ Cardinality(resetTokens) < MaxResetTokens

(* POST /api/auth/reset-password *)
(* The handler runs between awaits: the token read with the two checks     *)
(* that follow it, then updateUser, then markTokenAsUsed and the response. *)
(* A request is in flight (holds a slot of rp) from the moment it passes   *)
(* the checks until it responds.  A store call that throws lands in the    *)
(* handler's catch.                                                        *)

IdleRequest == [pc |-> "idle", newPassword |-> Null, row |-> Null]
IdleReview == [pc |-> "idle"]
IdleRegister == [pc |-> "idle"]
IdleStatus == [pc |-> "idle"]

\* if (!resetToken || resetToken.usedAt)
resetTokenInvalid_UnknownOnly(row) == IsNull(row)

resetTokenInvalid(row) == IsNull(row) \/ ~IsNull(Val(row).usedAt)

resetTokenExpired_Never(row) == FALSE

\* if (new Date() > resetToken.expiresAt)
resetTokenExpired(row) == now > Val(row).expiresAt

ResetReply(token, resp) == [op |-> "reset", token |-> token, resp |-> resp]

\* The requests in flight are anonymous: a new one takes the first free slot.
FreeSlot(r) == rp[r].pc = "idle" /\ \A q \in Req : q < r => rp[q].pc # "idle"

ResetStart(r, token, newPassword, dbOk) ==
    /\ FreeSlot(r)
    /\ UNCHANGED <<envVars, identityVars, resetTokens, successes, held, diagVars, notifVars>>
    /\ LET row == getPasswordResetToken(token)
       IN IF ~resetPasswordSchema(newPassword) \/ ~dbOk
          THEN /\ UNCHANGED rp
               /\ last' = ResetReply(token, ValidationError)
          ELSE IF resetTokenInvalid(row)
          THEN /\ UNCHANGED rp
               /\ last' = ResetReply(token, ResetInvalidToken)
          ELSE IF resetTokenExpired(row)
          THEN /\ UNCHANGED rp
               /\ last' = ResetReply(token, ResetTokenExpired)
          ELSE /\ rp' = [rp EXCEPT ![r] = [pc |-> "update",
                                           newPassword |-> Some(newPassword),
                                           row |-> row]]
               /\ last' = [op |-> "reset-await", resp |-> NoResponse]

ResetUpdateUser(r, salt, dbOk) ==
    /\ rp[r].pc = "update"
    /\ UNCHANGED <<envVars, userSeq, rg, resetTokens, successes, held, diagVars, notifVars>>
    /\ IF dbOk
       THEN /\ users' = updateUserPassword(Val(rp[r].row).userId,
                                           hashPassword(Val(rp[r].newPassword), salt))
            /\ rp' = [rp EXCEPT ![r].pc = "mark"]
            /\ last' = [op |-> "reset-await", resp |-> NoResponse]
       ELSE /\ UNCHANGED users
            /\ rp' = [rp EXCEPT ![r] = IdleRequest]
            /\ last' = ResetReply(Val(rp[r].row).token, ValidationError)

ResetMarkUsed(r, dbOk) ==
    /\ rp[r].pc = "mark"
    /\ UNCHANGED <<envVars, identityVars, held, diagVars, notifVars>>
    /\ rp' = [rp EXCEPT ![r] = IdleRequest]
    /\ IF dbOk
       THEN /\ resetTokens' = markTokenAsUsed(Val(rp[r].row).id)
            /\ successes' = [successes EXCEPT ![Val(rp[r].row).token] = @ + 1]
            /\ last' = ResetReply(Val(rp[r].row).token, ResetSuccess)
       ELSE /\ UNCHANGED <<resetTokens, successes>>
            /\ last' = ResetReply(Val(rp[r].row).token, ValidationError)

(* The clock *)

Tick ==
    /\ now < MaxHours
    /\ now' = now + 1
    /\ last' = [op |-> "tick", resp |-> NoResponse]
    /\ UNCHANGED <<nodeEnv, env, identityVars, resetVars, held, diagVars, notifVars>>

\* The clock seen twice a session-token lifetime.
TickHalfDay ==
    /\ now < MaxHalfDays * (JwtExpiresInHours \div 2)
    /\ now' = now + JwtExpiresInHours \div 2
    /\ last' = [op |-> "tick", resp |-> NoResponse]
    /\ UNCHANGED <<nodeEnv, env, identityVars, resetVars, held, diagVars, notifVars>>

-----------------------------------------------------------------------------
(* Authentication and authorization middleware *)

NoHeader == [scheme |-> "none"]
Basic(token) == [scheme |-> "Basic", token |-> token]
Bearer(token) == [scheme |-> "Bearer", token |-> token]

\* A middleware that reads the payload of the token and does not verify it.
authMiddleware_DecodeOnly(header) ==
    IF header.scheme # "Bearer"
    THEN [next |-> FALSE, verified |-> FALSE, resp |-> Unauthorized]
    ELSE IF ~IsJwt(header.token)
    THEN [next |-> FALSE, verified |-> FALSE, resp |-> InvalidToken]
    ELSE [next |-> TRUE, verified |-> FALSE,
          user |-> [id |-> header.token.id, email |-> header.token.email,
                    role |-> header.token.role, iat |-> header.token.iat,
                    exp |-> header.token.exp]]

\* A middleware that hands whatever follows the scheme to verifyToken.
authMiddleware_AnyScheme(header) ==
    IF "token" \notin DOMAIN header
    THEN [next |-> FALSE, verified |-> FALSE, resp |-> Unauthorized]
    ELSE LET decoded == verifyToken(header.token)
         IN IF IsNull(decoded)
            THEN [next |-> FALSE, verified |-> TRUE, resp |-> InvalidToken]
            ELSE [next |-> TRUE, verified |-> TRUE, user |-> Val(decoded)]

\* The response that ends the request, or the claims put on req.user;
\* `verified` tells whether verifyToken was called.
authMiddleware(header) ==
    IF header.scheme # "Bearer"
    THEN [next |-> FALSE, verified |-> FALSE, resp |-> Unauthorized]
    ELSE LET decoded == verifyToken(header.token)
         IN IF decoded = Thrown
            THEN \* the catch around the whole middleware
                 [next |-> FALSE, verified |-> TRUE, resp |-> AuthError]
            ELSE IF IsNull(decoded)
            THEN [next |-> FALSE, verified |-> TRUE, resp |-> InvalidToken]
            ELSE [next |-> TRUE, verified |-> TRUE, user |-> Val(decoded)]

requireRole_Anyone(roles, user) == [next |-> TRUE]

\* A check in which super_admin passes wherever admin is listed.
requireRole_Hierarchical(roles, user) ==
    IF IsNull(user)
    THEN [next |-> FALSE, resp |-> AuthenticationRequired]
    ELSE IF /\ Val(user).role \notin roles
            /\ ~(Val(user).role = "super_admin" /\ "admin" \in roles)
    THEN [next |-> FALSE, resp |-> Forbidden]
    ELSE [next |-> TRUE]

\* The middleware requireRole(roles) returns, applied to req.user.
requireRole(roles, user) ==
    IF IsNull(user)
    THEN [next |-> FALSE, resp |-> AuthenticationRequired]
    ELSE IF Val(user).role \notin roles
    THEN [next |-> FALSE, resp |-> Forbidden]
    ELSE [next |-> TRUE]

\* A client keeps the session token of the response it just got.
KeepToken ==
    /\ last.op \in {"register", "login"}
    /\ "token" \in DOMAIN last.resp
    /\ Cardinality(held) < MaxHeld
    /\ last.resp.token \notin held
    /\ held' = held \cup {last.resp.token}
    /\ last' = [op |-> "keep", resp |-> NoResponse]
    /\ UNCHANGED <<envVars, identityVars, resetVars, diagVars, notifVars>>

Headers ==
    {NoHeader, Basic(NotAJwt), Bearer(NotAJwt)}
        \cup {Bearer(t) : t \in held} \cup {Bearer(Forged(t)) : t \in held}

(* GET /api/users/profile *)

GetProfile(header) ==
    /\ UNCHANGED <<envVars, identityVars, resetVars, held, diagVars, notifVars>>
    /\ LET auth == authMiddleware(header)
       IN IF ~auth.next
          THEN last' = [op |-> "profile", resp |-> auth.resp]
          ELSE LET user == getUser(auth.user.id)
               IN IF IsNull(user)
                  THEN last' = [op |-> "profile", resp |-> UserNotFound]
                  ELSE last' = [op |-> "profile",
                                resp |-> [status |-> 200, success |-> TRUE,
                                          user |-> Val(user).id,
                                          role |-> Val(user).role,
                                          isActive |-> Val(user).isActive]]

(* PUT /api/users/profile *)

\* What a profile body can carry beside fullName: nothing, or columns that are
\* not the caller's to set.
ProfileExtras == {NoExtra, [role |-> "super_admin", isActive |-> FALSE]}

UpdateProfileKeys_All ==
    {"fullName", "phoneNumber", "facilityName", "district", "role", "isActive"}

\* The keys of updateProfileSchema; z.object parse drops every other key.
UpdateProfileKeys == {"fullName", "phoneNumber", "facilityName", "district"}

\* The parsed body, or none when fullName is shorter than 2.
updateProfileSchema(body) ==
    IF "fullName" \in DOMAIN body /\ Len(body.fullName) < MinFullNameLen
    THEN Null
    ELSE Some([k \in DOMAIN body \cap UpdateProfileKeys |-> body[k]])

UpdateProfile(header, fullName, extra) ==
    /\ UNCHANGED <<envVars, userSeq, rg, resetVars, held, diagVars, notifVars>>
    /\ LET auth == authMiddleware(header)
           validatedData == updateProfileSchema([fullName |-> fullName] @@ extra)
       IN IF ~auth.next
          THEN /\ UNCHANGED users
               /\ last' = [op |-> "profile-update", resp |-> auth.resp]
          ELSE IF IsNull(validatedData)
          THEN /\ UNCHANGED users
               /\ last' = [op |-> "profile-update", resp |-> ValidationError]
          ELSE /\ users' = updateUser(auth.user.id, Val(validatedData))
               /\ IF IsNull(getUser(auth.user.id))
                  THEN last' = [op |-> "profile-update", resp |-> UserNotFound]
                  ELSE last' = [op |-> "profile-update",
                                resp |-> [status |-> 200, success |-> TRUE,
                                          user |-> auth.user.id,
                                          injected |-> extra # NoExtra]]

(* DELETE /api/users/account *)

\* A row of another table references the user (the foreign keys have no ON DELETE
\* action: the DELETE fails while one does).
Referenced(id) ==
    \/ \E p \in patients : p.createdById = id
    \/ \E d \in diagnostics : d.submittedById = id \/ d.reviewedById = Some(id)
    \/ \E n \in notifications : n.userId = id
    \/ \E t \in resetTokens : t.userId = id

\* A deletion that takes the rows that reference the user with it.
DeleteAccount_Cascade(header) ==
    /\ UNCHANGED <<envVars, userSeq, rg, resetVars, held, rv, notifVars>>
    /\ LET auth == authMiddleware(header)
       IN IF ~auth.next
          THEN /\ UNCHANGED <<users, patients, diagnostics>>
               /\ last' = [op |-> "delete-account", resp |-> auth.resp]
          ELSE /\ users' = deleteUser(auth.user.id)
               /\ diagnostics' = {d \in diagnostics :
                                     /\ d.submittedById # auth.user.id
                                     /\ d.reviewedById # Some(auth.user.id)}
               /\ UNCHANGED patients
               /\ last' = [op |-> "delete-account",
                           resp |-> [status |-> 200, success |-> TRUE]]

DeleteAccount(header) ==
    /\ UNCHANGED <<envVars, userSeq, rg, resetVars, held, diagVars, notifVars>>
    /\ LET auth == authMiddleware(header)
       IN IF ~auth.next
          THEN /\ UNCHANGED users
               /\ last' = [op |-> "delete-account", resp |-> auth.resp]
          ELSE IF Referenced(auth.user.id)
          THEN /\ UNCHANGED users
               /\ last' = [op |-> "delete-account", resp |-> ServerError]
          ELSE /\ users' = deleteUser(auth.user.id)
               /\ last' = [op |-> "delete-account",
                           resp |-> [status |-> 200, success |-> TRUE]]

-----------------------------------------------------------------------------
(* Patients and diagnostics *)

PatientCodes == {"P-001"}
PatientIds == 1..(Cardinality(PatientCodes) + 1)
DiagnosticIds == 1..(MaxDiagnostics + 1)
NotificationIds == 1..(MaxNotifications + 1)
Results == {"positive"}
ReviewStatuses == {"reviewed", "verified", "pending"}
ReviewNotes == {"seen"}

getPatientByCode(code) ==
    LET found == {q \in patients : q.patientCode = code}
    IN IF found = {} THEN Null ELSE Some(CHOOSE q \in found : TRUE)

createPatient(patientCode, createdById) ==
    [id |-> Cardinality(patients) + 1, patientCode |-> patientCode,
     createdById |-> createdById]

\* A column of an insert: the value given, or the column's default.
Col(ins, column, default) == IF column \in DOMAIN ins THEN ins[column] ELSE default

\* INSERT INTO diagnostics: the columns the insert gives, defaults for the rest.
createDiagnostic(ins) ==
    [id |-> Cardinality(diagnostics) + 1, patientId |-> Val(ins.patientId),
     submittedById |-> ins.submittedById, result |-> ins.result,
     reviewStatus |-> Col(ins, "reviewStatus", "pending"),
     reviewedById |-> Col(ins, "reviewedById", Null),
     reviewedAt |-> Col(ins, "reviewedAt", Null),
     reviewNotes |-> Col(ins, "reviewNotes", Null), createdAt |-> now]

updateDiagnosticReview_StatusOnly(id, reviewedById, reviewStatus, reviewNotes) ==
    {IF d.id = id THEN [d EXCEPT !.reviewStatus = reviewStatus] ELSE d :
         d \in diagnostics}

\* UPDATE diagnostics SET ... WHERE id = ...: no row, no change; reviewNotes || null.
updateDiagnosticReview(id, reviewedById, reviewStatus, reviewNotes) ==
    {IF d.id = id
     THEN [d EXCEPT !.reviewStatus = reviewStatus,
                    !.reviewedById = Some(reviewedById),
                    !.reviewedAt = Some(now),
                    !.reviewNotes = reviewNotes]
     ELSE d : d \in diagnostics}

(* POST /api/patients *)

CreatePatient(header, patientCode) ==
    /\ UNCHANGED <<envVars, identityVars, resetVars, held, diagnostics, rv, notifVars>>
    /\ LET auth == authMiddleware(header)
       IN IF ~auth.next
          THEN /\ UNCHANGED patients
               /\ last' = [op |-> "patient", resp |-> auth.resp]
          ELSE IF IsNull(patientCode) \/ IsNull(getUser(auth.user.id))
          THEN \* the schema rejects the body, or created_by_id names no user
               /\ UNCHANGED patients
               /\ last' = [op |-> "patient", resp |-> ValidationError]
          ELSE IF ~IsNull(getPatientByCode(Val(patientCode)))
          THEN /\ UNCHANGED patients
               /\ last' = [op |-> "patient", resp |-> PatientExists]
          ELSE LET patient == createPatient(Val(patientCode), auth.user.id)
               IN /\ patients' = patients \cup {patient}
                  /\ last' = [op |-> "patient",
                              resp |-> [status |-> 201, success |-> TRUE,
                                        data |-> patient]]

(* PUT /api/patients/:id *)

PatientNotFound == [status |-> 404, code |-> "PATIENT_NOT_FOUND",
                    message |-> "Patient not found"]

\* The bodies of a patient update: the body goes to the UPDATE as it is, so it
\* can name any column, the creator and the id among them.
PatientBodies ==
    {[createdById |-> u] : u \in 1..MaxUsers} \cup {[id |-> p] : p \in PatientIds}

\* UPDATE patients SET ...data WHERE id = ...
updatePatient(id, data) ==
    {IF p.id = id
     THEN [k \in DOMAIN p |-> IF k \in DOMAIN data THEN data[k] ELSE p[k]]
     ELSE p : p \in patients}

\* The constraints of the patients table that an UPDATE can break: the primary
\* key, the creator's foreign key, and the foreign key of the diagnostics.
PatientConstraints(rows) ==
    /\ \A p, q \in rows : p.id = q.id => p = q
    /\ \A p \in rows : ~IsNull(getUser(p.createdById))
    /\ \A d \in diagnostics : \E p \in rows : p.id = d.patientId

UpdatePatient(header, id, data) ==
    /\ UNCHANGED <<envVars, identityVars, resetVars, held, diagnostics, rv, notifVars>>
    /\ LET auth == authMiddleware(header)
           rows == updatePatient(id, data)
       IN IF ~auth.next
          THEN /\ UNCHANGED patients
               /\ last' = [op |-> "patient-update", resp |-> auth.resp]
          ELSE IF ~PatientConstraints(rows) \/ Cardinality(rows) < Cardinality(patients)
          THEN \* the statement fails
               /\ UNCHANGED patients
               /\ last' = [op |-> "patient-update", resp |-> ValidationError]
          ELSE /\ patients' = rows
               /\ IF \E p \in patients : p.id = id
                  THEN last' = [op |-> "patient-update",
                                resp |-> [status |-> 200, success |-> TRUE]]
                  ELSE last' = [op |-> "patient-update", resp |-> PatientNotFound]

(* POST /api/diagnostics/submit *)

\* What a submit body can carry beside patientId and result: nothing, or the
\* review columns.
SubmitExtras ==
    {NoExtra,
     [reviewStatus |-> "verified", reviewedById |-> Some(1), reviewedAt |-> Some(0),
      reviewNotes |-> Some("forged")]}

diagnosticData_Spread(body, userId) ==
    [patientId |-> body.patientId, submittedById |-> userId,
     result |-> IF IsNull(body.result) THEN "pending" ELSE Val(body.result)] @@ body

\* const diagnosticData = { patientId, submittedById, imageUrl, result, ... }:
\* the fields are picked one by one from req.body.
diagnosticData(body, userId) ==
    [patientId |-> body.patientId, submittedById |-> userId,
     result |-> IF IsNull(body.result) THEN "pending" ELSE Val(body.result)]

\* The keys of insertDiagnosticSchema: the columns but id, createdAt, reviewedAt
\* and reviewStatus; parse drops every other key.
InsertDiagnosticKeys ==
    {"patientId", "submittedById", "result", "reviewedById", "reviewNotes"}

insertDiagnosticSchema(data) ==
    [k \in DOMAIN data \cap InsertDiagnosticKeys |-> data[k]]

SubmitReply(extra, resp) ==
    [op |-> "submit", injected |-> extra # NoExtra, resp |-> resp]

SubmitDiagnostic(header, hasFile, patientId, result, extra) ==
    /\ UNCHANGED <<envVars, identityVars, resetVars, held, patients, rv, notifVars>>
    /\ LET auth == authMiddleware(header)
           body == [patientId |-> patientId, result |-> result] @@ extra
       IN IF ~auth.next
          THEN /\ UNCHANGED diagnostics
               /\ last' = SubmitReply(extra, auth.resp)
          ELSE IF ~hasFile
          THEN /\ UNCHANGED diagnostics
               /\ last' = SubmitReply(extra, NoImage)
          ELSE LET validatedData ==
                       insertDiagnosticSchema(diagnosticData(body, auth.user.id))
               IN IF \/ IsNull(validatedData.patientId)
                     \/ Val(validatedData.patientId) \notin {q.id : q \in patients}
                     \/ IsNull(getUser(validatedData.submittedById))
                     \/ /\ ~IsNull(Col(validatedData, "reviewedById", Null))
                        /\ IsNull(getUser(Val(validatedData.reviewedById)))
                  THEN \* the schema rejects the body, or a foreign key names no row
                       /\ UNCHANGED diagnostics
                       /\ last' = SubmitReply(extra, ValidationError)
                  ELSE LET diagnostic == createDiagnostic(validatedData)
                       IN /\ Cardinality(diagnostics) < MaxDiagnostics
                          /\ diagnostics' = diagnostics \cup {diagnostic}
                          /\ last' = SubmitReply(extra,
                                                 [status |-> 201, success |-> TRUE,
                                                  data |-> diagnostic])

(* PUT /api/diagnostics/:id/review *)

ReviewerRoles_Everyone == Roles

ReviewerRoles == {"admin", "super_admin"}

\* The step a review request took: req.user once authMiddleware has set it,
\* req.params.id, and the response.
ReviewReply(user, id, resp) ==
    [op |-> "review", user |-> user, id |-> id, resp |-> resp]

ReviewDiagnostic(header, id, reviewStatus, reviewNotes) ==
    /\ UNCHANGED <<envVars, identityVars, resetVars, held, patients, rv, notifVars>>
    /\ LET auth == authMiddleware(header)
       IN IF ~auth.next
          THEN /\ UNCHANGED diagnostics
               /\ last' = ReviewReply(Null, id, auth.resp)
          ELSE LET role == requireRole(ReviewerRoles, Some(auth.user))
               IN IF ~role.next
                  THEN /\ UNCHANGED diagnostics
                       /\ last' = ReviewReply(Some(auth.user), id, role.resp)
                  ELSE IF IsNull(reviewStatus)
                  THEN /\ UNCHANGED diagnostics
                       /\ last' = ReviewReply(Some(auth.user), id, MissingStatus)
                  ELSE IF IsNull(getUser(auth.user.id))
                  THEN \* reviewed_by_id names no user: the update throws
                       /\ UNCHANGED diagnostics
                       /\ last' = ReviewReply(Some(auth.user), id, ValidationError)
                  ELSE /\ diagnostics' =
                              updateDiagnosticReview(id, auth.user.id,
                                                     Val(reviewStatus), reviewNotes)
                       /\ IF \E d \in diagnostics : d.id = id
                          THEN last' = ReviewReply(Some(auth.user), id,
                                                   [status |-> 200, success |-> TRUE,
                                                    data |-> CHOOSE d \in diagnostics' :
                                                                 d.id = id])
                          ELSE last' = ReviewReply(Some(auth.user), id, DiagnosticNotFound)

-----------------------------------------------------------------------------
(* The password-reset flow, one reset request at a time: registration,     *)
(* forgot-password, reset-password, the clock.                             *)

\* The environment variables the providers' credentials are read from: each is
\* unset, set to the empty string, or set to a value.
EnvValues == {Null, Some(""), Some("credential")}
EnvNames ==
    {"TWILIO_ACCOUNT_SID", "TWILIO_AUTH_TOKEN", "TWILIO_PHONE_NUMBER",
     "SENDGRID_API_KEY"}
NoCredentials == [k \in EnvNames |-> Null]

\* The tables and the requests in flight when the server has started.
InitStores ==
    /\ now = 0
    /\ nodeEnv \in {"development", "production"}
    /\ users = {}
    /\ userSeq = 0
    /\ rg = [r \in Req |-> IdleRegister]
    /\ resetTokens = {}
    /\ rp = [r \in Req |-> IdleRequest]
    /\ successes = [t \in TokenStrings |-> 0]
    /\ held = {}
    /\ patients = {}
    /\ diagnostics = {}
    /\ rv = [r \in Req |-> IdleReview]
    /\ notifications = {}
    /\ sn = Null
    /\ su = [r \in Req |-> IdleStatus]
    /\ failedApplied = [i \in NotificationIds |-> 0]
    /\ last = [op |-> "init", resp |-> NoResponse]

\* No route reads the providers' credentials: the flows run without them.
Init == InitStores /\ env = NoCredentials

\* Registration in this flow takes a short or a good password and the default
\* role; a reset request a short or a good new password that no account has yet.
RegisterPasswords == {q \in Passwords : q.k = 1}
ResetPasswords == {q \in Passwords : q.len # MinPasswordLen}

NextReset ==
    \/ \E e \in Emails, p \in RegisterPasswords : Register(e, p, Null, Null, 1)
    \/ \E e \in Emails : TokensLeft(e) /\ ForgotPassword(e, nanoid)
    \/ \E t \in TokenStrings, p \in ResetPasswords, ok \in BOOLEAN :
          ResetStart(1, t, p, ok)
    \/ \E ok \in BOOLEAN : ResetUpdateUser(1, 1, ok)
    \/ \E ok \in BOOLEAN : ResetMarkUsed(1, ok)
    \/ Tick

SpecReset == Init /\ [][NextReset]_vars

-----------------------------------------------------------------------------
(* The password-reset flow with reset requests running concurrently:       *)
(* well-formed requests of one account only, in production.               *)

InitRace == Init /\ nodeEnv = "production"

RaceEmail == CHOOSE e \in ValidEmails : TRUE
GoodPassword == CHOOSE q \in RegisterPasswords : registerSchema(RaceEmail, q, Null)
NewPasswords == {q \in ResetPasswords : resetPasswordSchema(q)}

NextRace ==
    \/ Register(RaceEmail, GoodPassword, Null, Null, 1)
    \/ TokensLeft(RaceEmail) /\ ForgotPassword(RaceEmail, nanoid)
    \/ \E r \in Req, t \in TokenStrings, p \in NewPasswords : ResetStart(r, t, p, TRUE)
    \/ \E r \in Req, ok \in BOOLEAN : ResetUpdateUser(r, 1, ok)
    \/ \E r \in Req, ok \in BOOLEAN : ResetMarkUsed(r, ok)
    \/ Tick

SpecRace == InitRace /\ [][NextRace]_vars

-----------------------------------------------------------------------------
(* Sessions: registration (active or not), login, the tokens the clients   *)
(* keep, a protected route, and the clock in half token lifetimes.         *)

InitAuth == Init /\ nodeEnv = "production"

Registered(email) == \E u \in users : u.email = email

\* The accounts differ in nothing but the address: they sign up in a fixed order.
EmailOrder == <<"a@moh.org", "b@moh.org">>
SignupEmails ==
    {EmailOrder[i] : i \in {j \in 1..Len(EmailOrder) :
                              \A k \in 1..(j - 1) : Registered(EmailOrder[k])}}

WrongPassword == CHOOSE q \in Passwords : q.k # GoodPassword.k
LoginPasswords == {GoodPassword, WrongPassword}

NextAuth ==
    \/ \E e \in SignupEmails, a \in {Null, Some(FALSE)} :
          Register(e, GoodPassword, Null, a, 1)
    \/ \E e \in Emails, p \in LoginPasswords : Login(e, p)
    \/ KeepToken
    \/ \E h \in Headers : GetProfile(h)
    \/ TickHalfDay

SpecAuth == InitAuth /\ [][NextAuth]_vars

-----------------------------------------------------------------------------
(* Diagnostic review by callers of every role: identities of every role,   *)
(* their tokens, one patient, submissions, and review requests with and    *)
(* without a status, for records that exist or not.                        *)

ReviewHeaders == {NoHeader} \cup {Bearer(t) : t \in held}
HeldBearers == {Bearer(t) : t \in held}
GateStatuses == {"reviewed"}

NextReview ==
    \/ \E e \in SignupEmails, role \in Roles :
          Register(e, GoodPassword, Some(role), Null, 1)
    \/ KeepToken
    \/ \E h \in ReviewHeaders, c \in PatientCodes : CreatePatient(h, Some(c))
    \/ \E h \in HeldBearers, q \in PatientIds, res \in Results :
          SubmitDiagnostic(h, TRUE, Some(q), Some(res), NoExtra)
    \/ \E h \in ReviewHeaders, d \in DiagnosticIds,
          st \in {Null} \cup {Some(x) : x \in GateStatuses},
          n \in {Null} \cup {Some(x) : x \in ReviewNotes} :
          ReviewDiagnostic(h, d, st, n)

SpecReview == InitAuth /\ [][NextReview]_vars

-----------------------------------------------------------------------------
(* Diagnostic review by reviewers: admins, their tokens, one patient,      *)
(* submissions, and review requests of every status and note.              *)

NextReviewRecord ==
    \/ \E e \in SignupEmails : Register(e, GoodPassword, Some("admin"), Null, 1)
    \/ KeepToken
    \/ \E h \in HeldBearers, c \in PatientCodes : CreatePatient(h, Some(c))
    \/ \E h \in HeldBearers, q \in {p.id : p \in patients}, res \in Results :
          SubmitDiagnostic(h, TRUE, Some(q), Some(res), NoExtra)
    \/ \E h \in HeldBearers, d \in DiagnosticIds,
          st \in {Null} \cup {Some(x) : x \in ReviewStatuses},
          n \in {Null} \cup {Some(x) : x \in ReviewNotes} :
          ReviewDiagnostic(h, d, st, n)

SpecReviewRecord == InitAuth /\ [][NextReviewRecord]_vars

-----------------------------------------------------------------------------
(* Accounts: registration, login, profile updates, password resets,        *)
(* account deletion, and the tokens the clients keep.                      *)

AccountHeaders == {NoHeader} \cup {Bearer(t) : t \in held}

NextAccount ==
    \/ \E e \in SignupEmails, role \in {Null, Some("admin")} :
          Register(e, GoodPassword, role, Null, 1)
    \/ Login(RaceEmail, GoodPassword)
    \/ KeepToken
    \/ \E h \in AccountHeaders, name \in FullNames, x \in ProfileExtras :
          UpdateProfile(h, name, x)
    \/ \E h \in AccountHeaders : DeleteAccount(h)
    \/ TokensLeft(RaceEmail) /\ ForgotPassword(RaceEmail, nanoid)
    \/ \E t \in TokenStrings, p \in NewPasswords : ResetStart(1, t, p, TRUE)
    \/ ResetUpdateUser(1, 1, TRUE)
    \/ ResetMarkUsed(1, TRUE)

SpecAccount == InitAuth /\ [][NextAccount]_vars

-----------------------------------------------------------------------------
(* Sessions against the stored accounts: registration with either          *)
(* password, active or not, profile updates, account deletion, the tokens  *)
(* the clients keep, and the clock in half token lifetimes.                *)

SignupPasswords == {q \in Passwords : registerSchema(RaceEmail, q, Null)}

NextSession ==
    \/ \E e \in SignupEmails, p \in SignupPasswords, a \in {Null, Some(FALSE)} :
          Register(e, p, Null, a, 1)
    \/ KeepToken
    \/ \E h \in AccountHeaders, name \in FullNames :
          UpdateProfile(h, name, NoExtra)
    \/ \E h \in AccountHeaders : DeleteAccount(h)
    \/ TickHalfDay

SpecSession == InitAuth /\ [][NextSession]_vars

-----------------------------------------------------------------------------
(* Authorization: identities of every role, their tokens, and a handler    *)
(* mounted behind authMiddleware and requireRole(roles), for every set of  *)
(* roles and every authorization header, and the clock in half token       *)
(* lifetimes.                                                              *)

\* What follows the scheme in the header, if anything does.
HeaderToken(header) ==
    IF "token" \in DOMAIN header THEN Some(header.token) ELSE Null

\* app.METHOD(path, authMiddleware, requireRole(roles), handler): whether the
\* handler is reached, and the response when it is not.
Guarded(roles, header) ==
    /\ UNCHANGED <<envVars, identityVars, resetVars, held, diagVars, notifVars>>
    /\ LET auth == authMiddleware(header)
       IN IF ~auth.next
          THEN last' = [op |-> "guarded", roles |-> roles, user |-> Null,
                        scheme |-> header.scheme, token |-> HeaderToken(header),
                        verified |-> auth.verified,
                        next |-> FALSE, resp |-> auth.resp]
          ELSE LET role == requireRole(roles, Some(auth.user))
               IN last' = [op |-> "guarded", roles |-> roles,
                           user |-> Some(auth.user),
                           scheme |-> header.scheme, token |-> HeaderToken(header),
                           verified |-> auth.verified,
                           next |-> role.next,
                           resp |-> IF role.next THEN NoResponse ELSE role.resp]

NextAuthorize ==
    \/ \E e \in SignupEmails, role \in Roles :
          Register(e, GoodPassword, Some(role), Null, 1)
    \/ KeepToken
    \/ \E roles \in SUBSET Roles, h \in Headers : Guarded(roles, h)
    \/ TickHalfDay

SpecAuthorize == InitAuth /\ [][NextAuthorize]_vars

-----------------------------------------------------------------------------
(* Diagnostic submission: identities of every role, their tokens, one      *)
(* patient, and submissions of every shape, with and without a file, for a *)
(* patient that exists or not, with and without review fields in the body. *)

NextSubmit ==
    \/ \E e \in SignupEmails, role \in Roles :
          Register(e, GoodPassword, Some(role), Null, 1)
    \/ KeepToken
    \/ \E h \in ReviewHeaders, c \in PatientCodes : CreatePatient(h, Some(c))
    \/ \E h \in ReviewHeaders, f \in BOOLEAN, q \in PatientIds, res \in Results,
          x \in SubmitExtras :
          SubmitDiagnostic(h, f, Some(q), Some(res), x)

SpecSubmit == InitAuth /\ [][NextSubmit]_vars

-----------------------------------------------------------------------------
(* The values of result and review status: an admin, a patient,            *)
(* submissions with a result of the list, with another text and with      *)
(* none, and reviews with a status of the list and with another text.      *)

SubmitResults == {Null, Some("positive"), Some("unsure")}
GivenStatuses == {"verified", "archived"}

NextValues ==
    \/ \E e \in SignupEmails : Register(e, GoodPassword, Some("admin"), Null, 1)
    \/ KeepToken
    \/ \E h \in HeldBearers, c \in PatientCodes : CreatePatient(h, Some(c))
    \/ \E h \in HeldBearers, p \in patients, res \in SubmitResults :
          SubmitDiagnostic(h, TRUE, Some(p.id), res, NoExtra)
    \/ \E h \in HeldBearers, d \in diagnostics, st \in GivenStatuses :
          ReviewDiagnostic(h, d.id, Some(st), Null)

SpecValues == InitAuth /\ [][NextValues]_vars

-----------------------------------------------------------------------------
(* Diagnostic review with review requests running concurrently.  A review  *)
(* request is in flight from the moment the middleware and the status      *)
(* check let it through until its UPDATE has run and it responds; `basis`  *)
(* remembers the review status the record had when the request came in     *)
(* (history: the handler never reads it).                                  *)

FreeReviewSlot(r) == rv[r].pc = "idle" /\ \A q \in Req : q < r => rv[q].pc # "idle"

ReviewArrive(r, header, id, reviewStatus, reviewNotes) ==
    /\ FreeReviewSlot(r)
    /\ UNCHANGED <<envVars, identityVars, resetVars, held, patients, diagnostics,
                   notifVars>>
    /\ LET auth == authMiddleware(header)
       IN IF ~auth.next
          THEN /\ UNCHANGED rv
               /\ last' = ReviewReply(Null, id, auth.resp)
          ELSE LET role == requireRole(ReviewerRoles, Some(auth.user))
               IN IF ~role.next
                  THEN /\ UNCHANGED rv
                       /\ last' = ReviewReply(Some(auth.user), id, role.resp)
                  ELSE IF IsNull(reviewStatus)
                  THEN /\ UNCHANGED rv
                       /\ last' = ReviewReply(Some(auth.user), id, MissingStatus)
                  ELSE /\ rv' = [rv EXCEPT ![r] =
                                    [pc |-> "update", user |-> auth.user, id |-> id,
                                     reviewStatus |-> Val(reviewStatus),
                                     reviewNotes |-> reviewNotes,
                                     basis |-> {d.reviewStatus : d \in
                                                  {x \in diagnostics : x.id = id}}]]
                       /\ last' = [op |-> "review-await", resp |-> NoResponse]

\* await storage.updateDiagnosticReview(...) and the response
ReviewCommit(r) ==
    /\ rv[r].pc = "update"
    /\ UNCHANGED <<envVars, identityVars, resetVars, held, patients, notifVars>>
    /\ rv' = [rv EXCEPT ![r] = IdleReview]
    /\ IF IsNull(getUser(rv[r].user.id))
       THEN /\ UNCHANGED diagnostics
            /\ last' = ReviewReply(Some(rv[r].user), rv[r].id, ValidationError)
       ELSE /\ diagnostics' =
                   updateDiagnosticReview(rv[r].id, rv[r].user.id,
                                          rv[r].reviewStatus, rv[r].reviewNotes)
            /\ IF \E d \in diagnostics : d.id = rv[r].id
               THEN last' = ReviewReply(Some(rv[r].user), rv[r].id,
                                        [status |-> 200, success |-> TRUE,
                                         data |-> CHOOSE d \in diagnostics' :
                                                      d.id = rv[r].id])
               ELSE last' = ReviewReply(Some(rv[r].user), rv[r].id, DiagnosticNotFound)


NextReviewRace ==
    \/ \E e \in SignupEmails : Register(e, GoodPassword, Some("admin"), Null, 1)
    \/ KeepToken
    \/ \E h \in HeldBearers, c \in PatientCodes : CreatePatient(h, Some(c))
    \/ \E h \in HeldBearers, q \in PatientIds, res \in Results :
          SubmitDiagnostic(h, TRUE, Some(q), Some(res), NoExtra)
    \/ \E r \in Req, h \in HeldBearers, d \in {x.id : x \in diagnostics},
          st \in {Some("reviewed"), Some("verified")},
          n \in {Null} \cup {Some(x) : x \in ReviewNotes} :
          ReviewArrive(r, h, d, st, n)
    \/ \E r \in Req : ReviewCommit(r)

SpecReviewRace == InitAuth /\ [][NextReviewRace]_vars

-----------------------------------------------------------------------------
(* Notifications *)

NotificationTypes == {"sms"}
Recipients == {"+26771000000"}
Messages == {"positive result"}
NotificationStatuses == {"pending", "sent", "failed"}
ErrorMessages == {"timeout"}

\* What a send body can carry beside type, recipient and message: nothing, or
\* the delivery columns.
SendExtras ==
    {NoExtra, [status |-> "sent", sentAt |-> Some(0), retryCount |-> 5]}

\* The keys of insertNotificationSchema: the columns but id, createdAt, sentAt,
\* status and retryCount; parse drops every other key.
InsertNotificationKeys == {"userId", "type", "recipient", "message"}

insertNotificationSchema(data) ==
    [k \in DOMAIN data \cap InsertNotificationKeys |-> data[k]]

\* INSERT INTO notifications: the columns the insert gives, defaults for the rest.
createNotification(ins) ==
    [id |-> Cardinality(notifications) + 1, userId |-> ins.userId,
     type |-> Val(ins.type), recipient |-> Val(ins.recipient),
     message |-> Val(ins.message),
     status |-> Col(ins, "status", "pending"),
     sentAt |-> Col(ins, "sentAt", Null),
     errorMessage |-> Null,
     retryCount |-> Col(ins, "retryCount", 0)]

updateNotificationStatus_KeepsSentAt(id, status, errorMessage) ==
    {IF n.id = id
     THEN [n EXCEPT !.status = status,
                    !.sentAt = IF status = "sent" THEN Some(now) ELSE @,
                    !.errorMessage = errorMessage,
                    !.retryCount = IF status = "failed" THEN @ + 1 ELSE @]
     ELSE n : n \in notifications}

updateNotificationStatus_Absolute(id, status, errorMessage) ==
    {IF n.id = id
     THEN [n EXCEPT !.status = status,
                    !.sentAt = IF status = "sent" THEN Some(now) ELSE Null,
                    !.errorMessage = errorMessage,
                    !.retryCount = IF status = "failed" THEN 1 ELSE 0]
     ELSE n : n \in notifications}

\* UPDATE notifications SET ... WHERE id = ...: no row, no change;
\* errorMessage || null; retry_count + 1 in the statement itself.
updateNotificationStatus(id, status, errorMessage) ==
    {IF n.id = id
     THEN [n EXCEPT !.status = status,
                    !.sentAt = IF status = "sent" THEN Some(now) ELSE Null,
                    !.errorMessage = errorMessage,
                    !.retryCount = IF status = "failed" THEN @ + 1 ELSE @]
     ELSE n : n \in notifications}

NotificationMissingStatus == [status |-> 400, code |-> "MISSING_STATUS",
                              message |-> "Status is required"]

NotificationNotFound == [status |-> 404, code |-> "NOTIFICATION_NOT_FOUND",
                         message |-> "Notification not found"]

(* POST /api/notifications/send *)
(* The handler runs between awaits: the parse and the insert, then the     *)
(* response.  Nothing else happens: no Sender is called.                   *)

SendCreate(header, type, recipient, message, extra) ==
    /\ IsNull(sn)
    /\ UNCHANGED <<envVars, identityVars, resetVars, held, diagVars>>
    /\ LET auth == authMiddleware(header)
           body == [type |-> type, recipient |-> recipient, message |-> message]
                       @@ extra
       IN IF ~auth.next
          THEN /\ UNCHANGED notifVars
               /\ last' = [op |-> "send", resp |-> auth.resp]
          ELSE LET validatedData ==
                       insertNotificationSchema([userId |-> auth.user.id] @@ body)
               IN IF \/ IsNull(validatedData.type)
                     \/ IsNull(validatedData.recipient)
                     \/ IsNull(validatedData.message)
                     \/ IsNull(getUser(validatedData.userId))
                  THEN \* the schema rejects the body, or user_id names no user
                       /\ UNCHANGED notifVars
                       /\ last' = [op |-> "send", resp |-> ValidationError]
                  ELSE LET notification == createNotification(validatedData)
                       IN /\ Cardinality(notifications) < MaxNotifications
                          /\ notifications' = notifications \cup {notification}
                          /\ sn' = Some(notification)
                          /\ UNCHANGED statusVars
                          /\ last' = [op |-> "send-await", resp |-> NoResponse]

SendRespond ==
    /\ ~IsNull(sn)
    /\ UNCHANGED <<envVars, identityVars, resetVars, held, diagVars, notifications,
                   statusVars>>
    /\ sn' = Null
    /\ last' = [op |-> "send",
                resp |-> [status |-> 201, success |-> TRUE, data |-> Val(sn)]]

(* PUT /api/notifications/:id/status *)

StatusReply(id, status, errorMessage, resp) ==
    [op |-> "status",
     req |-> [id |-> id, status |-> status, errorMessage |-> errorMessage],
     resp |-> resp]

\* The history of the updates to failed, after one more update has run.
ApplyFailed(id, status) ==
    IF status = "failed" /\ \E n \in notifications : n.id = id
    THEN [failedApplied EXCEPT ![id] = @ + 1]
    ELSE failedApplied

UpdateNotificationStatus(header, id, status, errorMessage) ==
    /\ UNCHANGED <<envVars, identityVars, resetVars, held, diagVars, sn, su>>
    /\ LET auth == authMiddleware(header)
       IN IF ~auth.next
          THEN /\ UNCHANGED <<notifications, failedApplied>>
               /\ last' = StatusReply(id, status, errorMessage, auth.resp)
          ELSE IF IsNull(status)
          THEN /\ UNCHANGED <<notifications, failedApplied>>
               /\ last' = StatusReply(id, status, errorMessage,
                                      NotificationMissingStatus)
          ELSE /\ \A n \in notifications :
                     (n.id = id /\ Val(status) = "failed") => n.retryCount < MaxRetries
               /\ notifications' = updateNotificationStatus(id, Val(status), errorMessage)
               /\ failedApplied' = ApplyFailed(id, Val(status))
               /\ IF \E n \in notifications : n.id = id
                  THEN last' = StatusReply(id, status, errorMessage,
                                           [status |-> 200, success |-> TRUE,
                                            data |-> CHOOSE n \in notifications' :
                                                         n.id = id])
                  ELSE last' = StatusReply(id, status, errorMessage,
                                           NotificationNotFound)

(* Sends of every shape: recipient and message absent, empty or filled,    *)
(* with and without delivery columns in the body.                          *)

SendRecipients == {Null, Some("")} \cup {Some(x) : x \in Recipients}
SendMessages == {Null, Some("")} \cup {Some(x) : x \in Messages}

NextSend ==
    \/ \E e \in SignupEmails : Register(e, GoodPassword, Null, Null, 1)
    \/ KeepToken
    \/ \E h \in ReviewHeaders, ty \in NotificationTypes, rcp \in SendRecipients,
          msg \in SendMessages, x \in SendExtras :
          SendCreate(h, Some(ty), rcp, msg, x)
    \/ SendRespond

SpecSend == InitAuth /\ [][NextSend]_vars

(* PUT /api/notifications/:id/status with requests running concurrently.   *)
(* A request is in flight from the moment the middleware and the status    *)
(* check let it through until its UPDATE has run and it responds; `seen`   *)
(* remembers the retryCount the row had when the request came in (history: *)
(* the handler never reads it).                                            *)

FreeStatusSlot(r) == su[r].pc = "idle" /\ \A q \in Req : q < r => su[q].pc # "idle"

StatusArrive(r, header, id, status, errorMessage) ==
    /\ FreeStatusSlot(r)
    /\ UNCHANGED <<envVars, identityVars, resetVars, held, diagVars, notifications,
                   sn, failedApplied>>
    /\ LET auth == authMiddleware(header)
       IN IF ~auth.next
          THEN /\ UNCHANGED su
               /\ last' = StatusReply(id, status, errorMessage, auth.resp)
          ELSE IF IsNull(status)
          THEN /\ UNCHANGED su
               /\ last' = StatusReply(id, status, errorMessage,
                                      NotificationMissingStatus)
          ELSE /\ su' = [su EXCEPT ![r] =
                           [pc |-> "update", id |-> id, status |-> Val(status),
                            errorMessage |-> errorMessage,
                            seen |-> {n.retryCount : n \in {m \in notifications :
                                                                m.id = id}}]]
               /\ last' = [op |-> "status-await", resp |-> NoResponse]

\* A handler that reads the row, adds one in the program and writes the sum.
StatusCommit_ReadModifyWrite(r) ==
    /\ su[r].pc = "update"
    /\ UNCHANGED <<envVars, identityVars, resetVars, held, diagVars, sn>>
    /\ \A n \in notifications :
          (n.id = su[r].id /\ su[r].status = "failed") => n.retryCount < MaxRetries
    /\ notifications' =
          {IF n.id = su[r].id /\ su[r].seen # {}
           THEN [n EXCEPT !.status = su[r].status,
                          !.sentAt = IF su[r].status = "sent" THEN Some(now) ELSE Null,
                          !.errorMessage = su[r].errorMessage,
                          !.retryCount = IF su[r].status = "failed"
                                         THEN (CHOOSE c \in su[r].seen : TRUE) + 1
                                         ELSE CHOOSE c \in su[r].seen : TRUE]
           ELSE n : n \in notifications}
    /\ failedApplied' = ApplyFailed(su[r].id, su[r].status)
    /\ su' = [su EXCEPT ![r] = IdleStatus]
    /\ last' = [op |-> "status", resp |-> NoResponse]

\* The UPDATE runs, alone, and the handler answers with the row it returned.
StatusCommit(r) ==
    /\ su[r].pc = "update"
    /\ UNCHANGED <<envVars, identityVars, resetVars, held, diagVars, sn>>
    /\ \A n \in notifications :
          (n.id = su[r].id /\ su[r].status = "failed") => n.retryCount < MaxRetries
    /\ notifications' =
          updateNotificationStatus(su[r].id, su[r].status, su[r].errorMessage)
    /\ failedApplied' = ApplyFailed(su[r].id, su[r].status)
    /\ su' = [su EXCEPT ![r] = IdleStatus]
    /\ last' =
          [seen |-> su[r].seen]
          @@ StatusReply(su[r].id, Some(su[r].status), su[r].errorMessage,
                         IF \E n \in notifications : n.id = su[r].id
                         THEN [status |-> 200, success |-> TRUE,
                               data |-> CHOOSE n \in notifications' :
                                            n.id = su[r].id]
                         ELSE NotificationNotFound)

RaceStatuses == {"failed", "sent"}

NextNotifyRace ==
    \/ Register(RaceEmail, GoodPassword, Null, Null, 1)
    \/ KeepToken
    \/ \E h \in HeldBearers, ty \in NotificationTypes, rcp \in Recipients,
          msg \in Messages :
          SendCreate(h, Some(ty), Some(rcp), Some(msg), NoExtra)
    \/ SendRespond
    \/ \E r \in Req, h \in HeldBearers, i \in {n.id : n \in notifications},
          st \in RaceStatuses :
          StatusArrive(r, h, i, Some(st), Null)
    \/ \E r \in Req : StatusCommit(r)

SpecNotifyRace == InitAuth /\ [][NextNotifyRace]_vars

(* Notifications: one account, its token, sends and status updates. *)

NextNotify ==
    \/ Register(RaceEmail, GoodPassword, Null, Null, 1)
    \/ KeepToken
    \/ \E h \in ReviewHeaders, ty \in NotificationTypes, rcp \in Recipients,
          msg \in Messages, x \in SendExtras :
          SendCreate(h, Some(ty), Some(rcp), Some(msg), x)
    \/ SendRespond
    \/ \E h \in ReviewHeaders, i \in NotificationIds,
          st \in {Null} \cup {Some(x) : x \in NotificationStatuses},
          em \in {Null} \cup {Some(x) : x \in ErrorMessages} :
          UpdateNotificationStatus(h, i, st, em)

SpecNotify == InitAuth /\ [][NextNotify]_vars

\* A handler that has been let through runs to its response.
SpecNotifyFair == SpecNotify /\ WF_vars(SendRespond)

-----------------------------------------------------------------------------
(* The diagnostic records under every operation: an admin who signs up,    *)
(* leaves and signs up again, the tokens kept, profile updates, patients   *)
(* created and updated, submissions, reviews, and notifications sent and   *)
(* updated.                                                                *)

NextRecords ==
    \/ Register(RaceEmail, GoodPassword, Some("admin"), Null, 1)
    \/ KeepToken
    \/ \E h \in HeldBearers, name \in FullNames : UpdateProfile(h, name, NoExtra)
    \/ \E h \in HeldBearers : DeleteAccount(h)
    \/ \E h \in HeldBearers, c \in PatientCodes : CreatePatient(h, Some(c))
    \/ \E h \in HeldBearers, p \in patients, data \in PatientBodies :
          UpdatePatient(h, p.id, data)
    \/ \E h \in HeldBearers, p \in patients, res \in Results :
          SubmitDiagnostic(h, TRUE, Some(p.id), Some(res), NoExtra)
    \/ \E h \in HeldBearers, d \in diagnostics :
          ReviewDiagnostic(h, d.id, Some("reviewed"), Null)
    \/ \E h \in HeldBearers, ty \in NotificationTypes, rcp \in Recipients,
          msg \in Messages :
          SendCreate(h, Some(ty), Some(rcp), Some(msg), NoExtra)
    \/ SendRespond
    \/ \E h \in HeldBearers, n \in notifications :
          UpdateNotificationStatus(h, n.id, Some("sent"), Null)

SpecRecords == InitAuth /\ [][NextRecords]_vars

-----------------------------------------------------------------------------
(* Properties of the password-reset flow *)

\* The row a token string names is known, unused and, by the clock, in date or not.
Unused(token) == \E row \in resetTokens : row.token = token /\ IsNull(row.usedAt)
InDate(token) == \E row \in resetTokens : row.token = token /\ now <= row.expiresAt

\* C1: over reset calls made one after the other with a token string and a valid
\* new secret, a call on a known, unused token made before its expiry is taken up
\* and, the store working, ends in success; at most one call per token string
\* ever succeeds; and every call made after that success is answered
\* INVALID_TOKEN and changes neither the password nor the token.
C1_ResetSucceedsOnce ==
    [][/\ \A t \in TokenStrings : successes'[t] <= 1
       /\ \A t \in TokenStrings, p \in NewPasswords :
            (successes[t] > 0 /\ ResetStart(1, t, p, TRUE))
              => /\ last' = ResetReply(t, ResetInvalidToken)
                 /\ UNCHANGED <<users, resetTokens, rp>>
       /\ \A t \in TokenStrings, p \in NewPasswords :
            (Unused(t) /\ InDate(t) /\ ResetStart(1, t, p, TRUE))
              => rp'[1].pc = "update"
       /\ (rp[1].pc = "mark" /\ ResetMarkUsed(1, TRUE))
              => /\ last'.resp = ResetSuccess
                 /\ successes'[last'.token] = 1
                 /\ \E row \in resetTokens' :
                        row.token = last'.token /\ ~IsNull(row.usedAt)]_vars

C1_Witness ==
    /\ last.op = "reset"
    /\ last.resp = ResetInvalidToken
    /\ successes[last.token] = 1

\* C2: reset requests racing on one token: at most one of them returns success.
C2_AtMostOneSuccess == \A t \in TokenStrings : successes[t] <= 1

\* C3: the password change and the marking of the token are one step: no state
\* has a request that replaced the password through a token whose used-at is
\* still unset.
C3_ResetIsAtomic ==
    \A row \in resetTokens, u \in users :
        (row.userId = u.id /\ u.password.pw \in NewPasswords)
            => ~IsNull(row.usedAt)

C5_TokenOnlyForIdentity ==
    [][\A e \in Emails :
         ForgotPassword(e, nanoid) =>
            IF Registered(e)
            THEN \E row \in resetTokens' :
                    /\ row \notin resetTokens
                    /\ resetTokens' = resetTokens \cup {row}
                    /\ \E u \in users : u.email = e /\ u.id = row.userId
            ELSE resetTokens' = resetTokens]_vars

C5_Witness ==
    /\ last.op = "forgot"
    /\ last.resp = ForgotNoUserResponse
    /\ users # {}
    /\ resetTokens # {}

\* C6: the forgot-password response does not tell whether the email is
\* registered: a well-formed request gets the response an unregistered email gets.
C6_ForgotResponseUniform ==
    last.op = "forgot" => last.resp \in {ValidationError, ForgotNoUserResponse}

-----------------------------------------------------------------------------
(* Properties of login and of the session tokens *)

\* C7: a well-formed login fails the same way for an unregistered email and for a
\* registered email with a wrong password: both get the 401 outcome the
\* unregistered email gets (status, code, message), with no token, and no table
\* changes.
C7_FailedLoginUniform ==
    [][\A e \in Emails, p \in LoginPasswords :
         (/\ Login(e, p)
          /\ loginSchema(e, p)
          /\ \/ ~Registered(e)
             \/ \E u \in users : u.email = e /\ u.password.pw # p)
            => /\ last'.resp = LoginNoUserResponse
               /\ last'.resp.status = 401
               /\ UNCHANGED <<users, userSeq, resetTokens, patients, diagnostics>>]_vars

C7_Witness ==
    /\ last.op = "login"
    /\ last.path = "bad-password"
    /\ \E u \in users : ~IsNull(u.lastLoginAt)

\* C8: a token the server issued carries an expiry 24 hours after its issuance;
\* at every time before the expiry it validates and yields the id and role of
\* the identity it was issued to, and at every time after the expiry it does not.
C8_TokenValidUntilExpiry ==
    \A t \in held :
        /\ t.exp = t.iat + JwtExpiresInHours
        /\ now < t.exp =>
              /\ ~IsNull(verifyToken(t))
              /\ \E u \in users : /\ u.id = Val(verifyToken(t)).id
                                  /\ u.role = Val(verifyToken(t)).role
                                  /\ u.id = t.id
              /\ authMiddleware(Bearer(t)).next
        /\ now > t.exp =>
              /\ IsNull(verifyToken(t))
              /\ ~authMiddleware(Bearer(t)).next
              /\ authMiddleware(Bearer(t)).resp = InvalidToken

C8_Witness ==
    /\ last.op = "profile"
    /\ last.resp = InvalidToken
    /\ \E t \in held : now > t.exp
    /\ \E t \in held : now < t.exp

\* C9: once an identity is inactive, a request with an unexpired token of that
\* identity is rejected by authentication, and a login for it returns no token.
C9_InactiveIsRejected ==
    [][/\ \A t \in held :
            (/\ \E u \in users : u.id = t.id /\ ~u.isActive
             /\ now < t.exp
             /\ GetProfile(Bearer(t)))
               => last'.resp \in {Unauthorized, InvalidToken}
       /\ \A e \in Emails, p \in LoginPasswords :
            (/\ \E u \in users : u.email = e /\ ~u.isActive
             /\ Login(e, p))
               => "token" \notin DOMAIN last'.resp]_vars

-----------------------------------------------------------------------------
(* Properties of the diagnostic review *)

\* C10: a review request with a valid token whose role is neither admin nor
\* super_admin is answered FORBIDDEN and leaves every diagnostic record as it was,
\* whatever record id, status and notes it carries.
C10_ReviewNeedsReviewerRole ==
    [][(/\ last'.op = "review"
        /\ ~IsNull(last'.user)
        /\ Val(last'.user).role \notin {"admin", "super_admin"})
          => /\ last'.resp = Forbidden
             /\ diagnostics' = diagnostics]_vars

C10_Witness ==
    /\ last.op = "review"
    /\ last.resp = Forbidden
    /\ \E d \in diagnostics : d.reviewStatus = "reviewed"

\* The review statuses in their order: pending < reviewed < verified.
StatusRank(status) ==
    CASE status = "pending" -> 0
      [] status = "reviewed" -> 1
      [] status = "verified" -> 2

\* C11: no step moves a diagnostic record's review status backward along
\* pending < reviewed < verified.
C11_StatusNeverRegresses ==
    [][\A d \in diagnostics, e \in diagnostics' :
         e.id = d.id => StatusRank(e.reviewStatus) >= StatusRank(d.reviewStatus)]_vars

\* C12: of two reviews of one record in flight together, the one that came in
\* while the record had a status that is no longer the current one is answered
\* CONFLICT and overwrites nothing.
C12_StaleReviewConflicts ==
    [][\A r \in Req :
         (/\ rv[r].pc = "update"
          /\ rv'[r].pc = "idle"
          /\ rv[r].basis # {}
          /\ \E d \in diagnostics : d.id = rv[r].id /\ d.reviewStatus \notin rv[r].basis)
            => /\ "code" \in DOMAIN last'.resp
               /\ last'.resp.code = "CONFLICT"
               /\ diagnostics' = diagnostics]_vars

\* C13: a record that a submission has just created has review status pending and
\* no reviewer id, review timestamp or review notes, also when the request body
\* carried those fields.
C13_SubmittedIsPending ==
    [][\A d \in diagnostics' :
         d.id \notin {x.id : x \in diagnostics}
            => /\ last'.op = "submit"
               /\ d.reviewStatus = "pending"
               /\ IsNull(d.reviewedById)
               /\ IsNull(d.reviewedAt)
               /\ IsNull(d.reviewNotes)]_vars

C13_Witness ==
    /\ last.op = "submit"
    /\ last.injected
    /\ last.resp.status = 201
    /\ last.resp.data \in diagnostics

\* C14: a review step that answers success has put on one record, together, the
\* caller's id as reviewer, the clock as review timestamp, and the status and
\* notes of the request, has left the record's other columns and every other
\* record alone, and returns that record; a review step that answers anything
\* else has changed no record.
C14_ReviewCommitsAllOrNone ==
    [][last'.op = "review" =>
         IF last'.resp.status = 200
         THEN LET rec == last'.resp.data
              IN /\ rec \in diagnostics'
                 /\ rec.reviewedById = Some(Val(last'.user).id)
                 /\ rec.reviewedAt = Some(now)
                 /\ \E d \in diagnostics :
                       /\ d.id = rec.id
                       /\ diagnostics' = (diagnostics \ {d}) \cup {rec}
                       /\ rec = [d EXCEPT !.reviewStatus = rec.reviewStatus,
                                          !.reviewedById = rec.reviewedById,
                                          !.reviewedAt = rec.reviewedAt,
                                          !.reviewNotes = rec.reviewNotes]
                 /\ \E h \in ReviewHeaders, st \in ReviewStatuses,
                       n \in {Null} \cup {Some(x) : x \in ReviewNotes} :
                       /\ rec.reviewStatus = st
                       /\ rec.reviewNotes = n
                       /\ ReviewDiagnostic(h, rec.id, Some(st), n)
         ELSE diagnostics' = diagnostics]_vars

C14_Witness ==
    /\ last.op = "review"
    /\ last.resp.status = 200
    /\ last.resp.data.reviewStatus = "verified"
    /\ last.resp.data.reviewNotes # Null
    /\ last.resp.data.reviewedById = Some(2)

\* C15: a review of an id that names no record, by a caller whose valid token has
\* role admin or super_admin, is answered 404 DIAGNOSTIC_NOT_FOUND and changes no
\* record; that outcome differs in status and code from FORBIDDEN; and a caller
\* whose role is neither gets FORBIDDEN for an id that exists and for one that
\* does not.
C15_MissingRecordIsNotFound ==
    [][(last'.op = "review" /\ ~IsNull(last'.user)) =>
         IF Val(last'.user).role \notin {"admin", "super_admin"}
         THEN last'.resp = Forbidden /\ diagnostics' = diagnostics
         ELSE last'.id \notin {x.id : x \in diagnostics} =>
                 /\ diagnostics' = diagnostics
                 /\ \A h \in HeldBearers, st \in ReviewStatuses,
                       n \in {Null} \cup {Some(x) : x \in ReviewNotes} :
                       ReviewDiagnostic(h, last'.id, Some(st), n) =>
                          /\ last'.resp.status = 404
                          /\ last'.resp.code = "DIAGNOSTIC_NOT_FOUND"
                          /\ last'.resp.status # Forbidden.status
                          /\ last'.resp.code # Forbidden.code]_vars

C15_Witness ==
    /\ last.op = "review"
    /\ last.resp = DiagnosticNotFound
    /\ diagnostics # {}
    /\ last.id \notin {x.id : x \in diagnostics}

-----------------------------------------------------------------------------
(* Properties of the notifications *)

\* C16: a notification starts with retryCount 0 whatever the send request
\* carried; a status update to failed that is applied raises the retryCount of
\* its notification by exactly 1; every other step leaves every retryCount as it
\* was; so no retryCount ever decreases.
C16_RetryCountBookkeeping ==
    [][/\ \A m \in notifications' :
            m.id \notin {n.id : n \in notifications} => m.retryCount = 0
       /\ \A n \in notifications :
            \E m \in notifications' :
               /\ m.id = n.id
               /\ m.retryCount =
                     IF /\ last'.op = "status"
                        /\ last'.resp.status = 200
                        /\ last'.req.id = n.id
                        /\ last'.req.status = Some("failed")
                     THEN n.retryCount + 1
                     ELSE n.retryCount]_vars

C16_Witness ==
    /\ last.op = "status"
    /\ last.req.status = Some("sent")
    /\ last.resp.status = 200
    /\ last.resp.data.retryCount = MaxRetries

\* C17: a notification whose status is sent is changed by no step, and a status
\* update addressed to it is not answered with success.
C17_SentIsTerminal ==
    [][\A n \in notifications :
         n.status = "sent" =>
            /\ n \in notifications'
            /\ (last'.op = "status" /\ last'.req.id = n.id)
                  => last'.resp.status # 200]_vars

\* C18: a status update to sent or to failed that repeats the update just applied
\* (same id, status and error message) leaves the notification's status,
\* retryCount and error message as the first one left them.
C18_TransitionsIdempotent ==
    [][(/\ last.op = "status"
        /\ last.resp.status = 200
        /\ last'.op = "status"
        /\ last'.req = last.req
        /\ last.req.status \in {Some("sent"), Some("failed")})
          => \A n \in notifications :
                n.id = last.req.id =>
                   \E m \in notifications' :
                      /\ m.id = n.id
                      /\ m.status = n.status
                      /\ m.retryCount = n.retryCount
                      /\ m.errorMessage = n.errorMessage]_vars

\* C19: when a send request has been answered with success, the notification it
\* created has status sent, a sent timestamp and retryCount 0.
C19_SendDelivers ==
    (last.op = "send" /\ last.resp.status = 201) =>
        \E n \in notifications :
           /\ n.id = last.resp.data.id
           /\ n.status = "sent"
           /\ ~IsNull(n.sentAt)
           /\ n.retryCount = 0

\* C20: a notification that is pending eventually is not pending.
C20_PendingEventuallyLeaves ==
    \A i \in NotificationIds :
        (\E n \in notifications : n.id = i /\ n.status = "pending")
            ~> (\E n \in notifications : n.id = i /\ n.status # "pending")

\* C21: with updates to failed of one notification in flight together, every
\* notification's retryCount is its retryCount at creation, 0, plus the number of
\* updates to failed that have been applied to it.
C21_NoLostRetryIncrement ==
    \A n \in notifications : n.retryCount = failedApplied[n.id]

C21_Witness ==
    /\ last.op = "status"
    /\ last.req.status = Some("failed")
    /\ last.resp.status = 200
    /\ \E c \in last.seen : last.resp.data.retryCount > c + 1

\* C22: no notification is stored with an empty recipient or an empty message.
C22_NoEmptyRecipientOrMessage ==
    \A n \in notifications : n.recipient # "" /\ n.message # ""

\* C23: a reset token's usedAt, once set, is never cleared and never changes its
\* value, and the token row stays.
C23_UsedAtPermanent ==
    [][\A t \in resetTokens :
         ~IsNull(t.usedAt) =>
            \E u \in resetTokens' : u.id = t.id /\ u.usedAt = t.usedAt]_vars

-----------------------------------------------------------------------------
(* Properties of authentication and authorization *)

\* C24: behind requireRole(roles), a caller with valid claims reaches the handler
\* exactly when the claims' role is one of roles, and is answered FORBIDDEN
\* otherwise; no role stands for another.
C24_RoleCheckIsExactMembership ==
    (last.op = "guarded" /\ ~IsNull(last.user)) =>
        /\ last.next <=> Val(last.user).role \in last.roles
        /\ ~last.next => last.resp = Forbidden

C24_Witness ==
    /\ last.op = "guarded"
    /\ ~IsNull(last.user)
    /\ \/ Val(last.user).role = "super_admin" /\ last.roles = {"admin"}
       \/ Val(last.user).role = "admin" /\ last.roles = {"super_admin"}
    /\ last.resp = Forbidden

\* C25: a request whose authorization header is absent or has another scheme than
\* Bearer is answered 401 UNAUTHORIZED; verifyToken is not called and the handler
\* is not reached.
C25_NoBearerIsUnauthorized ==
    (last.op = "guarded" /\ last.scheme # "Bearer") =>
        /\ last.resp = Unauthorized
        /\ ~last.verified
        /\ ~last.next

C25_Witness ==
    /\ last.op = "guarded"
    /\ last.scheme = "Basic"
    /\ last.resp = Unauthorized
    /\ held # {}

\* C26: for a bearer token that is no JWT, that has a wrong signature or that has
\* expired, verifyToken gives null and no exception; the request is answered 401
\* INVALID_TOKEN and the handler is not reached.
C26_InvalidTokenIsAValue ==
    (/\ last.op = "guarded"
     /\ last.scheme = "Bearer"
     /\ LET token == Val(last.token)
        IN \/ ~IsJwt(token)
           \/ token.sig # JwtSecret
           \/ now >= token.exp)
        => /\ verifyToken(Val(last.token)) = Null
           /\ last.verified
           /\ last.resp = InvalidToken
           /\ ~last.next

C26_Witness ==
    /\ last.op = "guarded"
    /\ last.scheme = "Bearer"
    /\ IsJwt(Val(last.token))
    /\ Val(last.token).sig = JwtSecret
    /\ now >= Val(last.token).exp
    /\ last.resp = InvalidToken

\* The session tokens the server can have issued, with and without a forged
\* role, and text that is no JWT.
IssueTimes == {k * (JwtExpiresInHours \div 2) : k \in 0..MaxHalfDays}
SessionTokens ==
    {[id |-> i, email |-> e, role |-> r, iat |-> t, exp |-> t + JwtExpiresInHours,
      sig |-> JwtSecret] :
        i \in 1..MaxUsers, e \in {RaceEmail}, r \in {"health_worker"},
        t \in IssueTimes}
CandidateTokens ==
    SessionTokens \cup {Forged(t) : t \in SessionTokens} \cup {NotAJwt}

\* C27: a step that changes the stored accounts and leaves the clock alone
\* leaves the verdict on every token as it was: at one time, the verdict is the
\* same in every stored state.
C27_ValidityIgnoresStoredState ==
    [][(now' = now /\ users' # users) =>
         \A t \in CandidateTokens : verifyToken(t)' = verifyToken(t)]_vars

C27_Witness ==
    /\ last.op = "delete-account"
    /\ last.resp.status = 200
    /\ \E t \in held : ~IsNull(verifyToken(t)) /\ IsNull(getUser(t.id))

\* C28: no step changes the role stored for an identity.
C28_RoleNeverChanges ==
    [][\A u \in users : \A v \in users' : v.id = u.id => v.role = u.role]_vars

C28_Witness ==
    /\ last.op = "profile-update"
    /\ last.resp.status = 200
    /\ last.resp.injected
    /\ \E u \in users :
          u.id = last.resp.user /\ u.fullName # RegisteredName /\ u.role = "health_worker"

-----------------------------------------------------------------------------
(* Properties of the diagnostic records *)

C30_StatusAndResultInRange ==
    \A d \in diagnostics :
        /\ d.reviewStatus \in {"pending", "reviewed", "verified"}
        /\ d.result \in {"positive", "negative", "inconclusive"}

-----------------------------------------------------------------------------
(* Further properties of the password-reset flow *)

\* C31: a reset whose new password is shorter than eight characters is answered
\* VALIDATION_ERROR and changes nothing: no password, no token and no request in
\* flight changes, so a token that was unused and in date still is, and a
\* following reset with a valid password on it is taken up.
C31_ShortPasswordChangesNothing ==
    [][\A t \in TokenStrings, p \in ResetPasswords, ok \in BOOLEAN :
         (p.len < MinPasswordLen /\ ResetStart(1, t, p, ok))
            => /\ last' = ResetReply(t, ValidationError)
               /\ UNCHANGED <<users, resetTokens, rp, successes>>
               /\ (Unused(t) /\ InDate(t)) => (Unused(t) /\ InDate(t))']_vars

C31_Witness ==
    /\ last.op = "reset"
    /\ last.resp = ValidationError
    /\ Unused(last.token)
    /\ InDate(last.token)
    /\ rp[1].pc = "idle"
    /\ \E u \in users, row \in resetTokens :
          row.userId = u.id /\ u.password.pw \notin NewPasswords

\* C39: the reset route checks that the token is known and unused before it
\* checks the expiry: a reset on a token that is both used and past its expiry
\* is answered INVALID_TOKEN, not TOKEN_EXPIRED, and a reset on a token string
\* no row holds is answered INVALID_TOKEN at any time; neither changes a table.
C39_UsedCheckedBeforeExpiry ==
    [][\A t \in TokenStrings, p \in NewPasswords :
         (/\ ResetStart(1, t, p, TRUE)
          /\ \/ \A row \in resetTokens : row.token # t
             \/ \E row \in resetTokens :
                   row.token = t /\ ~IsNull(row.usedAt) /\ now > row.expiresAt)
            => /\ last' = ResetReply(t, ResetInvalidToken)
               /\ last'.resp # ResetTokenExpired
               /\ UNCHANGED <<users, resetTokens, rp>>]_vars

C39_Witness ==
    /\ last.op = "reset"
    /\ last.resp = ResetInvalidToken
    /\ \E row \in resetTokens :
          row.token = last.token /\ ~IsNull(row.usedAt) /\ now > row.expiresAt

-----------------------------------------------------------------------------
(* Further properties of the notifications *)

\* C36: a notification has its sent timestamp set exactly when its status is
\* sent: a notification is created pending with no sent timestamp, whatever the
\* send body carries; a status update to sent sets the timestamp, and a status
\* update to any other status clears it.
C36_SentAtIffSent ==
    [][/\ \A m \in notifications' : ~IsNull(m.sentAt) <=> m.status = "sent"
       /\ \A m \in notifications' :
            m.id \notin {n.id : n \in notifications}
               => m.status = "pending" /\ IsNull(m.sentAt)
       /\ (last'.op = "status" /\ last'.resp.status = 200)
            => \A m \in notifications' :
                  m.id = last'.req.id =>
                     /\ m.status = Val(last'.req.status)
                     /\ IsNull(m.sentAt) <=> last'.req.status # Some("sent")]_vars

C36_Witness ==
    /\ last.op = "status"
    /\ last.resp.status = 200
    /\ last.req.status = Some("failed")
    /\ last.resp.data.retryCount = 1
    /\ IsNull(last.resp.data.sentAt)

-----------------------------------------------------------------------------
(* The reviewer of a record: health workers and admins, their tokens, one  *)
(* patient, submissions whose body may carry review columns, and review    *)
(* requests of every status by every caller.                               *)

CallerRoles == {"health_worker", "admin"}

NextReviewer ==
    \/ \E e \in SignupEmails, role \in CallerRoles :
          Register(e, GoodPassword, Some(role), Null, 1)
    \/ KeepToken
    \/ \E h \in HeldBearers, c \in PatientCodes : CreatePatient(h, Some(c))
    \/ \E h \in HeldBearers, p \in patients, res \in Results, x \in SubmitExtras :
          SubmitDiagnostic(h, TRUE, Some(p.id), Some(res), x)
    \/ \E h \in ReviewHeaders, d \in diagnostics, st \in ReviewStatuses :
          ReviewDiagnostic(h, d.id, Some(st), Null)

SpecReviewer == InitAuth /\ [][NextReviewer]_vars

\* C37: a diagnostic record whose review status is reviewed or verified has its
\* reviewer id and review timestamp set; and whenever a step changes a record's
\* review status, reviewer id or review timestamp, the step is a review by a
\* caller whose verified token claims the role admin or super_admin, and the
\* reviewer id written is the id of those claims and the timestamp the clock:
\* nothing a request body carries reaches the reviewer id.
C37_ReviewerIsVerifiedCaller ==
    [][/\ \A e \in diagnostics' :
            e.reviewStatus \in {"reviewed", "verified"}
               => ~IsNull(e.reviewedById) /\ ~IsNull(e.reviewedAt)
       /\ \A e \in diagnostics' :
            e.id \notin {d.id : d \in diagnostics}
               => e.reviewStatus = "pending" /\ IsNull(e.reviewedById)
       /\ \A d \in diagnostics, e \in diagnostics' :
            (/\ e.id = d.id
             /\ <<e.reviewStatus, e.reviewedById, e.reviewedAt>>
                   # <<d.reviewStatus, d.reviewedById, d.reviewedAt>>)
               => /\ last'.op = "review"
                  /\ ~IsNull(last'.user)
                  /\ Val(last'.user).role \in {"admin", "super_admin"}
                  /\ \E t \in held : /\ authMiddleware(Bearer(t)).next
                                     /\ authMiddleware(Bearer(t)).user = Val(last'.user)
                  /\ e.reviewedById = Some(Val(last'.user).id)
                  /\ e.reviewedAt = Some(now)]_vars

C37_Witness ==
    /\ last.op = "review"
    /\ last.resp.status = 200
    /\ last.resp.data.reviewStatus = "verified"
    /\ last.resp.data.reviewedById = Some(2)
    /\ Val(last.user).id = 2
    /\ \E u \in users : u.id = 1 /\ u.role = "health_worker"

-----------------------------------------------------------------------------
(* Password reset and login: two accounts signed up with one password, a   *)
(* reset token for either, the reset, and logins with the old and the new  *)
(* password.                                                               *)

OldAndNewPasswords == {GoodPassword} \cup NewPasswords

NextResetLogin ==
    \/ \E e \in SignupEmails : Register(e, GoodPassword, Null, Null, 1)
    \/ \E e \in ValidEmails : TokensLeft(e) /\ ForgotPassword(e, nanoid)
    \/ \E t \in TokenStrings, p \in NewPasswords : ResetStart(1, t, p, TRUE)
    \/ ResetUpdateUser(1, 2, TRUE)
    \/ ResetMarkUsed(1, TRUE)
    \/ \E e \in ValidEmails, p \in OldAndNewPasswords : Login(e, p)

SpecResetLogin == InitAuth /\ [][NextResetLogin]_vars

\* The identities a reset has been completed for: the owners of the used tokens.
ResetDone(u) == \E row \in resetTokens : row.userId = u.id /\ ~IsNull(row.usedAt)

\* The identities a reset request in flight is for.
ResetUnderWay(u) ==
    \E r \in Req : rp[r].pc # "idle" /\ Val(rp[r].row).userId = u.id

\* C34: a reset that succeeds changes the password of the token's identity and
\* of no other: the step that writes the password leaves every other identity
\* as it was and changes nothing but the password of the token's, and no other
\* step of the reset touches an identity.  After the reset a login of that
\* identity succeeds with the new password and fails with the old one, and a
\* login of an identity no reset was made or is under way for still succeeds
\* with its own password.
C34_ResetChangesOnePassword ==
    [][/\ (rp[1].pc = "update" /\ rp'[1].pc = "mark") =>
            LET id == Val(rp[1].row).userId
                hash == hashPassword(Val(rp[1].newPassword), 2)
            IN /\ \A u \in users : u.id # id => u \in users'
               /\ \A u \in users : u.id = id => [u EXCEPT !.password = hash] \in users'
               /\ Cardinality(users') = Cardinality(users)
       /\ (last'.op \in {"reset", "reset-await"} /\ rp[1].pc # "update")
            => users' = users
       /\ \A u \in users, p \in OldAndNewPasswords :
            Login(u.email, p) =>
               IF ResetDone(u)
               THEN /\ p \in NewPasswords
                        => last'.resp.status = 200 /\ last'.resp.user = u.id
                    /\ p = GoodPassword => last'.resp = LoginBadPasswordResponse
               ELSE (p = GoodPassword /\ ~ResetUnderWay(u))
                        => last'.resp.status = 200 /\ last'.resp.user = u.id]_vars

C34_Witness ==
    /\ last.op = "login"
    /\ last.resp.status = 200
    /\ \E u \in users : /\ u.id = last.resp.user
                        /\ ResetDone(u)
                        /\ u.password.pw \in NewPasswords
    /\ \E u \in users : u.id # last.resp.user /\ u.password.pw = GoodPassword

-----------------------------------------------------------------------------
(* Several reset tokens of one identity: the account asks for a token more *)
(* than once, at different hours, and resets with each.                    *)

NextTokens ==
    \/ Register(RaceEmail, GoodPassword, Null, Null, 1)
    \/ ForgotPassword(RaceEmail, nanoid)
    \/ \E t \in TokenStrings, p \in NewPasswords : ResetStart(1, t, p, TRUE)
    \/ ResetUpdateUser(1, 1, TRUE)
    \/ ResetMarkUsed(1, TRUE)
    \/ Tick

SpecTokens == InitAuth /\ [][NextTokens]_vars

\* C35: consuming a reset token touches that token only: the step that marks
\* it used leaves every other token row as it was, and no other step of a reset
\* changes a token row; so with several tokens of one identity outstanding, each
\* token that is unused and in date is still taken up by a reset, whatever
\* became of the others, and ends in success once.
C35_ConsumeTouchesOneToken ==
    [][/\ (rp[1].pc = "mark" /\ rp'[1].pc = "idle") =>
            LET id == Val(rp[1].row).id
            IN /\ \A row \in resetTokens : row.id # id => row \in resetTokens'
               /\ \A row \in resetTokens :
                     row.id = id => [row EXCEPT !.usedAt = Some(now)] \in resetTokens'
               /\ Cardinality(resetTokens') = Cardinality(resetTokens)
               /\ last' = ResetReply(Val(rp[1].row).token, ResetSuccess)
       /\ (last'.op \in {"reset", "reset-await"} /\ rp[1].pc # "mark")
            => resetTokens' = resetTokens
       /\ \A t \in TokenStrings, p \in NewPasswords :
            (Unused(t) /\ InDate(t) /\ ResetStart(1, t, p, TRUE))
               => rp'[1].pc = "update" /\ Val(rp'[1].row).token = t
       /\ \A t \in TokenStrings : successes'[t] <= 1]_vars

C35_Witness ==
    /\ last.op = "reset"
    /\ last.resp = ResetSuccess
    /\ Cardinality(resetTokens) >= 2
    /\ \A row \in resetTokens : successes[row.token] = 1
    /\ Cardinality({row.userId : row \in resetTokens}) = 1
    /\ \E a, b \in resetTokens : a.usedAt # b.usedAt

-----------------------------------------------------------------------------
(* The read routes behind authMiddleware *)

Fetched(op, data) ==
    [op |-> op, resp |-> [status |-> 200, success |-> TRUE, data |-> data]]

(* GET /api/patients *)

GetPatients(header) ==
    /\ UNCHANGED <<envVars, identityVars, resetVars, held, diagVars, notifVars>>
    /\ LET auth == authMiddleware(header)
       IN IF ~auth.next
          THEN last' = [op |-> "patients", resp |-> auth.resp]
          ELSE last' = Fetched("patients", patients)

(* GET /api/patients/:id *)

GetPatient(header, id) ==
    /\ UNCHANGED <<envVars, identityVars, resetVars, held, diagVars, notifVars>>
    /\ LET auth == authMiddleware(header)
           patient == {p \in patients : p.id = id}
       IN IF ~auth.next
          THEN last' = [op |-> "patient-by-id", resp |-> auth.resp]
          ELSE IF patient = {}
          THEN last' = [op |-> "patient-by-id", resp |-> PatientNotFound]
          ELSE last' = Fetched("patient-by-id",
                               [patient |-> patient,
                                diagnostics |-> {d \in diagnostics : d.patientId = id}])

(* GET /api/diagnostics/history *)

GetDiagnosticsHistory(header) ==
    /\ UNCHANGED <<envVars, identityVars, resetVars, held, diagVars, notifVars>>
    /\ LET auth == authMiddleware(header)
       IN IF ~auth.next
          THEN last' = [op |-> "diagnostics", resp |-> auth.resp]
          ELSE last' = Fetched("diagnostics", diagnostics)

(* GET /api/diagnostics/:id *)

GetDiagnostic(header, id) ==
    /\ UNCHANGED <<envVars, identityVars, resetVars, held, diagVars, notifVars>>
    /\ LET auth == authMiddleware(header)
           diagnostic == {d \in diagnostics : d.id = id}
       IN IF ~auth.next
          THEN last' = [op |-> "diagnostic-by-id", resp |-> auth.resp]
          ELSE IF diagnostic = {}
          THEN last' = [op |-> "diagnostic-by-id", resp |-> DiagnosticNotFound]
          ELSE last' = Fetched("diagnostic-by-id",
                               [diagnostic |-> diagnostic,
                                patient |-> {p.patientCode : p \in
                                               {q \in patients : \E d \in diagnostic :
                                                                   q.id = d.patientId}}])

(* GET /api/notifications/history *)

GetNotificationsHistory(header) ==
    /\ UNCHANGED <<envVars, identityVars, resetVars, held, diagVars, notifVars>>
    /\ LET auth == authMiddleware(header)
       IN IF ~auth.next
          THEN last' = [op |-> "notifications", resp |-> auth.resp]
          ELSE last' = Fetched("notifications", notifications)

-----------------------------------------------------------------------------
(* Every route behind authMiddleware, called with every kind of header    *)
(* that should not pass: none, another scheme, text that is no JWT, a      *)
(* token signed with another key, and an issued token after its expiry.    *)
(* An admin with a token that validates fills the tables first.            *)

GuardHeaders == Headers \cup {Basic(t) : t \in held}

\* A header that carries a token that validates: the Bearer scheme, a JWT signed
\* with the server's key, before its expiry.
Validates(h) ==
    /\ h.scheme = "Bearer"
    /\ IsJwt(h.token)
    /\ h.token.sig = JwtSecret
    /\ now < h.token.exp

\* One request of a protected route carrying the header.
Protected(h) ==
    \/ GetProfile(h)
    \/ \E name \in FullNames : UpdateProfile(h, name, NoExtra)
    \/ DeleteAccount(h)
    \/ \E c \in PatientCodes : CreatePatient(h, Some(c))
    \/ GetPatients(h)
    \/ \E id \in PatientIds : GetPatient(h, id)
    \/ \E id \in PatientIds, data \in PatientBodies : UpdatePatient(h, id, data)
    \/ \E id \in PatientIds, res \in Results :
          SubmitDiagnostic(h, TRUE, Some(id), Some(res), NoExtra)
    \/ GetDiagnosticsHistory(h)
    \/ \E id \in DiagnosticIds : GetDiagnostic(h, id)
    \/ \E id \in DiagnosticIds : ReviewDiagnostic(h, id, Some("reviewed"), Null)
    \/ \E ty \in NotificationTypes, rcp \in Recipients, msg \in Messages :
          SendCreate(h, Some(ty), Some(rcp), Some(msg), NoExtra)
    \/ GetNotificationsHistory(h)
    \/ \E id \in NotificationIds : UpdateNotificationStatus(h, id, Some("sent"), Null)

NextGuard ==
    \/ Register(RaceEmail, GoodPassword, Some("admin"), Null, 1)
    \/ KeepToken
    \/ \E h \in HeldBearers, c \in PatientCodes : CreatePatient(h, Some(c))
    \/ \E h \in HeldBearers, p \in patients, res \in Results :
          SubmitDiagnostic(h, TRUE, Some(p.id), Some(res), NoExtra)
    \/ \E h \in HeldBearers, ty \in NotificationTypes, rcp \in Recipients,
          msg \in Messages :
          SendCreate(h, Some(ty), Some(rcp), Some(msg), NoExtra)
    \/ SendRespond
    \/ \E h \in GuardHeaders : ~Validates(h) /\ Protected(h)
    \/ TickHalfDay

SpecGuard == InitAuth /\ [][NextGuard]_vars

\* C38: a request of a profile, patient, diagnostic or notification route whose
\* header carries no token that validates (no header, another scheme, no JWT, a
\* wrong signature, an expired token) is answered 401 UNAUTHORIZED or 401
\* INVALID_TOKEN, with no stored data in the response, and leaves every table and
\* every request in flight as it was.
C38_NoTokenNoAccess ==
    [][\/ /\ last'.resp \in {Unauthorized, InvalidToken}
          /\ last'.resp.status = 401
          /\ "data" \notin DOMAIN last'.resp
          /\ UNCHANGED <<envVars, identityVars, resetVars, held, diagVars, notifVars>>
       \/ \A h \in GuardHeaders : ~Validates(h) => ~Protected(h)]_vars

C38_Witness ==
    /\ last.op = "status"
    /\ last.resp = InvalidToken
    /\ \E t \in held : now >= t.exp
    /\ users # {}
    /\ patients # {}
    /\ diagnostics # {}
    /\ notifications # {}

-----------------------------------------------------------------------------
(* The senders: sendSMS and sendEmail *)

\* !!process.env.X: set, and not the empty string.
Truthy(v) == ~IsNull(v) /\ Val(v) # ""

\* What a call of a sender gives: the value it resolves to, the line it logs,
\* and the calls it made to the provider.
SenderOutcome(result, log, external) ==
    [result |-> result, log |-> log, external |-> external]

sendSMS_NeedsTwilio(params) ==
    IF ~(/\ Truthy(env.TWILIO_ACCOUNT_SID)
         /\ Truthy(env.TWILIO_AUTH_TOKEN)
         /\ Truthy(env.TWILIO_PHONE_NUMBER))
    THEN SenderOutcome([success |-> FALSE, error |-> "Twilio not configured"],
                       "[SMS] Error:", <<>>)
    ELSE SenderOutcome([success |-> TRUE], "[SMS] Would send to:", <<>>)

\* The call of the provider is a comment: the configured branch logs too.
sendSMS(params) ==
    LET twilioConfigured == /\ Truthy(env.TWILIO_ACCOUNT_SID)
                            /\ Truthy(env.TWILIO_AUTH_TOKEN)
                            /\ Truthy(env.TWILIO_PHONE_NUMBER)
    IN IF ~twilioConfigured
       THEN SenderOutcome([success |-> TRUE],
                          "[SMS] Twilio not configured - SMS would be sent:", <<>>)
       ELSE SenderOutcome([success |-> TRUE], "[SMS] Would send to:", <<>>)

sendEmail(params) ==
    LET sendGridConfigured == Truthy(env.SENDGRID_API_KEY)
    IN IF ~sendGridConfigured
       THEN SenderOutcome([success |-> TRUE],
                          "[Email] SendGrid not configured - Email would be sent:",
                          <<>>)
       ELSE SenderOutcome([success |-> TRUE], "[Email] Would send to:", <<>>)

\* A call of a sender: nothing is stored.
SendSMS(to, message) ==
    /\ UNCHANGED <<envVars, identityVars, resetVars, held, diagVars, notifVars>>
    /\ LET params == [to |-> to, message |-> message]
           out == sendSMS(params)
       IN last' = [op |-> "sendSMS", params |-> params, resp |-> out.result,
                   log |-> out.log, external |-> out.external]

SendEmail(to, subject, message) ==
    /\ UNCHANGED <<envVars, identityVars, resetVars, held, diagVars, notifVars>>
    /\ LET params == [to |-> to, subject |-> subject, message |-> message]
           out == sendEmail(params)
       IN last' = [op |-> "sendEmail", params |-> params, resp |-> out.result,
                   log |-> out.log, external |-> out.external]

(* The senders under every setting of the credentials, for every recipient *)
(* and message, the empty ones among them.                                 *)

SenderRecipients == {"", "+26771000000", "a@moh.org"}
SenderSubjects == {"Result"}
SenderMessages == {"", "positive result"}

InitSender == InitStores /\ nodeEnv = "production" /\ env \in [EnvNames -> EnvValues]

NextSender ==
    \/ \E to \in SenderRecipients, msg \in SenderMessages : SendSMS(to, msg)
    \/ \E to \in SenderRecipients, sub \in SenderSubjects, msg \in SenderMessages :
          SendEmail(to, sub, msg)

SpecSender == InitSender /\ [][NextSender]_vars

\* C33: with the SMS provider's credentials not all set, sendSMS gives success
\* for every recipient and message, with no error and no call to the provider;
\* and with the email provider's key not set, sendEmail does the same.
C33_UnconfiguredSenderAccepts ==
    /\ (/\ last.op = "sendSMS"
        /\ \E k \in {"TWILIO_ACCOUNT_SID", "TWILIO_AUTH_TOKEN", "TWILIO_PHONE_NUMBER"} :
              env[k] \in {Null, Some("")})
          => /\ last.resp = [success |-> TRUE]
             /\ "error" \notin DOMAIN last.resp
             /\ last.external = <<>>
    /\ (last.op = "sendEmail" /\ env.SENDGRID_API_KEY \in {Null, Some("")})
          => /\ last.resp = [success |-> TRUE]
             /\ "error" \notin DOMAIN last.resp
             /\ last.external = <<>>

C33_Witness ==
    /\ last.op = "sendSMS"
    /\ last.params.to = ""
    /\ env.TWILIO_ACCOUNT_SID = Some("credential")
    /\ env.TWILIO_AUTH_TOKEN = Some("credential")
    /\ env.TWILIO_PHONE_NUMBER = Some("")
    /\ last.log = "[SMS] Twilio not configured - SMS would be sent:"
    /\ last.resp.success

-----------------------------------------------------------------------------
(* POST /api/auth/register, between its awaits: the parse and the lookup   *)
(* of the email, then the hash and the insert with the response.  A        *)
(* request is in flight (holds a slot of rg) from the moment its lookup    *)
(* found no user until it responds.                                        *)

\* An INSERT with no UNIQUE constraint on the email.
createUser_NoUnique(insertUser) ==
    Some([id |-> userSeq + 1, email |-> insertUser.email,
          password |-> insertUser.password, fullName |-> RegisteredName,
          role |-> IF IsNull(insertUser.role) THEN "health_worker"
                   ELSE Val(insertUser.role),
          isActive |-> TRUE, lastLoginAt |-> Null])

\* INSERT INTO users ... RETURNING: email is UNIQUE, so the insert of an email a
\* row holds throws; the other columns take their defaults.
createUser(insertUser) ==
    IF \E u \in users : u.email = insertUser.email
    THEN Thrown
    ELSE Some([id |-> userSeq + 1, email |-> insertUser.email,
               password |-> insertUser.password, fullName |-> RegisteredName,
               role |-> IF IsNull(insertUser.role) THEN "health_worker"
                        ELSE Val(insertUser.role),
               isActive |-> TRUE, lastLoginAt |-> Null])

RegisterReply(email, step, resp) ==
    [op |-> "register", email |-> email, step |-> step, resp |-> resp]

FreeRegisterSlot(r) == rg[r].pc = "idle" /\ \A q \in Req : q < r => rg[q].pc # "idle"

RegisterArrive(r, email, password, role) ==
    /\ FreeRegisterSlot(r)
    /\ UNCHANGED <<envVars, users, userSeq, resetVars, held, diagVars, notifVars>>
    /\ IF ~registerSchema(email, password, role)
       THEN /\ UNCHANGED rg
            /\ last' = RegisterReply(email, "parse", ValidationError)
       ELSE IF ~IsNull(getUserByEmail(email))
       THEN /\ UNCHANGED rg
            /\ last' = RegisterReply(email, "lookup", UserExists)
       ELSE /\ rg' = [rg EXCEPT ![r] = [pc |-> "insert", email |-> email,
                                        password |-> password, role |-> role]]
            /\ last' = [op |-> "register-await", resp |-> NoResponse]

RegisterInsert(r, salt) ==
    /\ rg[r].pc = "insert"
    /\ UNCHANGED <<envVars, resetVars, held, diagVars, notifVars>>
    /\ rg' = [rg EXCEPT ![r] = IdleRegister]
    /\ LET user == createUser([email |-> rg[r].email,
                               password |-> hashPassword(rg[r].password, salt),
                               role |-> rg[r].role])
       IN IF user = Thrown
          THEN \* the handler's catch
               /\ UNCHANGED <<users, userSeq>>
               /\ last' = RegisterReply(rg[r].email, "insert", ValidationError)
          ELSE /\ userSeq < MaxUsers
               /\ users' = users \cup {Val(user)}
               /\ userSeq' = userSeq + 1
               /\ last' = RegisterReply(rg[r].email, "insert",
                                        [status |-> 201, success |-> TRUE,
                                         user |-> Val(user).id,
                                         token |-> generateToken(Val(user))])

(* Registrations running concurrently, for one email and for two, with     *)
(* passwords the schema takes and one it does not.                         *)

NextRegisterRace ==
    \/ \E r \in Req, e \in ValidEmails, p \in RegisterPasswords,
          role \in {Null, Some("admin")} :
          RegisterArrive(r, e, p, role)
    \/ \E r \in Req : RegisterInsert(r, 1)

SpecRegisterRace == InitAuth /\ [][NextRegisterRace]_vars

\* C32: no two identities have one email, also with registrations for one email
\* in flight together: a registration that answers with a token has created
\* exactly one identity, with an email no identity had; a registration that
\* answers anything else has created none; and the insert of an email that an
\* identity got in the meantime is answered with an error.
C32_OneIdentityPerEmail ==
    [][/\ \A u \in users', v \in users' : u.email = v.email => u = v
       /\ (last'.op = "register" /\ "token" \in DOMAIN last'.resp)
            => \E u \in users' :
                  /\ u.email = last'.email
                  /\ u.id = last'.resp.user
                  /\ users' = users \cup {u}
                  /\ \A v \in users : v.email # u.email
       /\ (last'.op = "register" /\ "token" \notin DOMAIN last'.resp)
            => /\ users' = users
               /\ last'.resp.status = 400
       /\ \A r \in Req :
            (/\ rg[r].pc = "insert"
             /\ \E u \in users : u.email = rg[r].email
             /\ RegisterInsert(r, 1))
               => /\ last'.resp = ValidationError
                  /\ users' = users]_vars

C32_Witness ==
    /\ last.op = "register"
    /\ last.step = "insert"
    /\ last.resp = ValidationError
    /\ Cardinality({u \in users : u.email = last.email}) = 1

====
